---- MODULE Spec2Model ----
(***************************************************************************)
(* Baby-Brigade server: storage layer (DatabaseStorage), auth routes       *)
(* (setupAuth) and API routes (registerRoutes) as a state machine.         *)
(*                                                                         *)
(* Tables are sets of rows.  A handler that awaits several storage calls   *)
(* and whose interleaving matters is split at the awaits (password reset,  *)
(* createCohort, upvotes); the other handlers are one action each.         *)
(* An optional value (T | undefined) is a set with at most one element.    *)
(***************************************************************************)
EXTENDS Integers, Sequences, FiniteSets, TLC

\* ---------------------------------------------------------------- bounds
MaxTokenId == 2        \* password reset tokens issued
MaxTime == 2           \* clock ticks (hours)
NumResetReq == 2       \* POST /api/reset-password requests in one run
MaxCohortId == 2       \* cohorts created
MaxMembershipId == 2   \* cohort_memberships rows inserted
MaxPostId == 2         \* posts rows inserted
MaxCommentId == 1      \* comments rows inserted
MaxUpvoteId == 3       \* upvotes rows inserted
NumUpvoteReq == 2      \* upvote requests in flight at once
MaxBabyId == 2         \* babies rows inserted
NumBabyReq == 2        \* POST /api/baby requests in flight at once
MaxUserId == 2         \* users rows inserted by register
NumRegisterReq == 2    \* POST /api/register requests in one run
NumSessions == 2       \* browser sessions (cookies)

\* ------------------------------------------------------- program constants
TokenTTLHours == 1     \* expiresAt.setHours(expiresAt.getHours() + 1)
MinPasswordLen == 8    \* resetPasswordSchema: password min(8)

\* ------------------------------------------------------------------ state
VARIABLES
  password,      \* users.password : user id -> stored "<hash>.<salt>"
  resetTokens,   \* table password_reset_tokens
  nextTokenId,   \* serial of password_reset_tokens.id
  now,           \* wall clock, in hours
  reset,         \* POST /api/reset-password requests: position and locals
  cohorts,       \* table cohorts
  memberships,   \* table cohort_memberships
  nextCohortId,  \* serial of cohorts.id
  nextMembershipId, \* serial of cohort_memberships.id
  posts,         \* table posts
  comments,      \* table comments
  upvotes,       \* table upvotes
  nextPostId,    \* serial of posts.id
  nextCommentId, \* serial of comments.id
  nextUpvoteId,  \* serial of upvotes.id
  upreq,         \* upvote requests: position and locals
  babies,        \* table babies
  nextBabyId,    \* serial of babies.id
  cohortRanges,  \* columns start_date, end_date of cohorts (rows where set)
  breq,          \* POST /api/baby requests: position and locals
  accounts,      \* table users, as register fills it
  nextUserId,    \* serial of users.id
  sessions,      \* session id -> user id passport keeps in the session
  rreq,          \* POST /api/register requests: position and locals
  last           \* request and response of the handler that answered last

resetVars == <<password, resetTokens, nextTokenId, now, reset>>
memberVars == <<cohorts, memberships, nextCohortId, nextMembershipId>>
contentVars ==
  <<posts, comments, upvotes, nextPostId, nextCommentId, nextUpvoteId, upreq>>
babyVars == <<babies, nextBabyId, cohortRanges, breq>>
authVars == <<accounts, nextUserId, sessions, rreq>>
vars == <<resetVars, memberVars, contentVars, babyVars, authVars, last>>

UpvoteReqs == 1 .. NumUpvoteReq
IdleUpvote == [pc |-> "idle", op |-> "none", caller |-> 0, postId |-> 0,
               status |-> 0, body |-> ""]
InitNoContent ==
  /\ posts = {}
  /\ comments = {}
  /\ upvotes = {}
  /\ nextPostId = 1
  /\ nextCommentId = 1
  /\ nextUpvoteId = 1
  /\ upreq = [r \in UpvoteReqs |-> IdleUpvote]

Anon == 0              \* a request without an authenticated session

\* A calendar date is <<year, month, day>>; NoDate is "Invalid Date".
NoDate == <<0, 0, 0>>
BabyReqs == 1 .. NumBabyReq
IdleBaby == [pc |-> "idle", caller |-> Anon, birthDate |-> NoDate,
             birthWeek |-> NoDate, start |-> NoDate, end |-> NoDate,
             cohortId |-> 0, status |-> 0, body |-> ""]
InitNoBabies ==
  /\ babies = {}
  /\ nextBabyId = 1
  /\ cohortRanges = {}
  /\ breq = [r \in BabyReqs |-> IdleBaby]

SessionIds == 1 .. NumSessions
RegisterReqs == 1 .. NumRegisterReq
IdleRegister == [pc |-> "idle", session |-> 0, username |-> "", email |-> "",
                 password |-> << >>, role |-> "", status |-> 0, body |-> "",
                 userId |-> 0]
InitNoAccounts ==
  /\ accounts = {}
  /\ nextUserId = 1
  /\ sessions = [s \in SessionIds |-> Anon]
  /\ rreq = [r \in RegisterReqs |-> IdleRegister]

\* ------------------------------------------------------------------ users
\* users rows that exist for the whole run: id, email, global role.
UserIds == 1 .. 3
AdminId == 1           \* "reidmac93 is admin, with ID 1"
EmailOf == <<"u1@example.org", "u2@example.org", "u3@example.org">>
users ==
  { [id |-> u, email |-> EmailOf[u], role |-> IF u = AdminId THEN "admin" ELSE "user"]
    : u \in UserIds }

getUser(id) == { u \in users : u.id = id }
getUserByEmail(email) == { u \in users : u.email = email }

\* -------------------------------------------------------------- passwords
\* Plain passwords are sequences of characters; only their length matters to
\* the schema.  scrypt is injective for the model: the stored value keeps the
\* plain password and the salt it was hashed with.
ShortPw == <<"p">>
PwA == <<"p", "a", "s", "s", "w", "o", "r", "A">>
PwB == <<"p", "a", "s", "s", "w", "o", "r", "B">>
Pw0 == <<"p", "a", "s", "s", "w", "o", "r", "0">>
PlainPasswords == {ShortPw, PwA, PwB}
Salts == {"s1"}

hashPassword(pw, salt) == [hash |-> <<pw, salt>>, salt |-> salt]

\* ---------------------------------------------------- password reset tokens
\* randomUUID(): the n-th token issued is the uuid n; uuid 0 was never issued;
\* NotAUuid stands for a string that is not a uuid.
Uuids == 0 .. MaxTokenId
NotAUuid == 0 - 1
TokenInputs == Uuids \cup {NotAUuid}

createPasswordResetToken(tokens, id, userId, t) ==
  tokens \cup { [id |-> id, userId |-> userId, token |-> id,
                 expiresAt |-> t + TokenTTLHours, used |-> 0] }

getPasswordResetTokenByToken_IgnoresUsed(tokens, token, t) ==
  { row \in tokens : row.token = token /\ row.expiresAt > t }

getPasswordResetTokenByToken(tokens, token, t) ==
  { row \in tokens : row.token = token /\ row.expiresAt > t /\ row.used = 0 }

markTokenAsUsed_All(tokens, tokenId) ==
  { [row EXCEPT !.used = 1] : row \in tokens }

markTokenAsUsed(tokens, tokenId) ==
  { IF row.id = tokenId THEN [row EXCEPT !.used = 1] ELSE row : row \in tokens }

updateUserPassword(pws, userId, hashedPassword) ==
  [u \in DOMAIN pws |-> IF u = userId THEN hashedPassword ELSE pws[u]]

\* zod schemas of the two routes
WellFormedEmails == { EmailOf[u] : u \in UserIds } \cup { "nobody@example.org" }
EmailInputs == { EmailOf[2], EmailOf[3], "nobody@example.org", "noemail" }
forgotPasswordSchemaOk(body) == body.email \in WellFormedEmails
resetPasswordSchemaOk(body) ==
  body.token \in Uuids /\ Len(body.password) >= MinPasswordLen

\* response bodies
ResetSentMsg == "If an account with that email exists, a password reset link has been sent."
InvalidRequestMsg == "Invalid request"
InvalidOrExpiredTokenMsg == "Invalid or expired reset token"
ResetDoneMsg == "Password has been reset successfully"

ResetReqs == 1 .. NumResetReq
IdleReset == [pc |-> "idle", token |-> 0, password |-> ShortPw, resetToken |-> {},
              status |-> 0, body |-> ""]
NoRequest == [op |-> "none", status |-> 0, body |-> "", token |-> {}]

\* -------------------------------------------------- POST /api/forgot-password
ForgotPassword(email) ==
  /\ nextTokenId <= MaxTokenId
  /\ LET body == [email |-> email]
         user == getUserByEmail(email)
     IN IF ~forgotPasswordSchemaOk(body)
        THEN /\ last' = [op |-> "forgotPassword", status |-> 400,
                         body |-> InvalidRequestMsg, token |-> {}]
             /\ UNCHANGED <<resetTokens, nextTokenId>>
        ELSE IF user = {}
        THEN /\ last' = [op |-> "forgotPassword", status |-> 200,
                         body |-> ResetSentMsg, token |-> {}]
             /\ UNCHANGED <<resetTokens, nextTokenId>>
        ELSE /\ resetTokens' =
                  createPasswordResetToken(resetTokens, nextTokenId,
                                           (CHOOSE u \in user : TRUE).id, now)
             /\ nextTokenId' = nextTokenId + 1
             /\ last' = [op |-> "forgotPassword", status |-> 200,
                         body |-> ResetSentMsg, token |-> {nextTokenId}]
  /\ UNCHANGED <<password, now, reset>>
  /\ UNCHANGED <<memberVars, contentVars, babyVars, authVars>>

\* --------------------------------------------------- POST /api/reset-password
\* resetPasswordSchema.parse(req.body)
ResetParse(r, token, pw) ==
  /\ reset[r].pc = "idle"
  /\ LET body == [token |-> token, password |-> pw]
     IN IF resetPasswordSchemaOk(body)
        THEN reset' = [reset EXCEPT ![r] =
                 [@ EXCEPT !.pc = "lookup", !.token = token, !.password = pw]]
        ELSE reset' = [reset EXCEPT ![r] =
                 [@ EXCEPT !.pc = "done", !.status = 400, !.body = InvalidRequestMsg]]
  /\ UNCHANGED <<password, resetTokens, nextTokenId, now, last>>
  /\ UNCHANGED <<memberVars, contentVars, babyVars, authVars>>

\* const resetToken = await storage.getPasswordResetTokenByToken(data.token)
ResetLookup(r) ==
  /\ reset[r].pc = "lookup"
  /\ LET resetToken == getPasswordResetTokenByToken(resetTokens, reset[r].token, now)
     IN IF resetToken = {}
        THEN reset' = [reset EXCEPT ![r] =
                 [@ EXCEPT !.pc = "done", !.status = 400,
                           !.body = InvalidOrExpiredTokenMsg]]
        ELSE reset' = [reset EXCEPT ![r] =
                 [@ EXCEPT !.pc = "update", !.resetToken = resetToken]]
  /\ UNCHANGED <<password, resetTokens, nextTokenId, now, last>>
  /\ UNCHANGED <<memberVars, contentVars, babyVars, authVars>>

\* hashPassword(data.password); await storage.updateUserPassword(...)
ResetUpdatePassword(r) ==
  /\ reset[r].pc = "update"
  /\ \E salt \in Salts, row \in reset[r].resetToken :
       password' = updateUserPassword(password, row.userId,
                                      hashPassword(reset[r].password, salt))
  /\ reset' = [reset EXCEPT ![r] = [@ EXCEPT !.pc = "mark"]]
  /\ UNCHANGED <<resetTokens, nextTokenId, now, last>>
  /\ UNCHANGED <<memberVars, contentVars, babyVars, authVars>>

\* await storage.markTokenAsUsed(resetToken.id); res.status(200)
ResetMarkUsed(r) ==
  /\ reset[r].pc = "mark"
  /\ \E row \in reset[r].resetToken :
       resetTokens' = markTokenAsUsed(resetTokens, row.id)
  /\ reset' = [reset EXCEPT ![r] =
         [@ EXCEPT !.pc = "done", !.status = 200, !.body = ResetDoneMsg]]
  /\ UNCHANGED <<password, nextTokenId, now, last>>
  /\ UNCHANGED <<memberVars, contentVars, babyVars, authVars>>

Tick ==
  /\ now < MaxTime
  /\ now' = now + 1
  /\ UNCHANGED <<password, resetTokens, nextTokenId, reset, last>>
  /\ UNCHANGED <<memberVars, contentVars, babyVars, authVars>>

InitReset ==
  /\ password = [u \in UserIds |-> hashPassword(Pw0, "s0")]
  /\ resetTokens = {}
  /\ nextTokenId = 1
  /\ now = 0
  /\ reset = [r \in ResetReqs |-> IdleReset]
  /\ last = NoRequest
  /\ cohorts = {}
  /\ memberships = {}
  /\ nextCohortId = 1
  /\ nextMembershipId = 1
  /\ InitNoContent
  /\ InitNoBabies
  /\ InitNoAccounts

NextReset ==
  \/ \E email \in EmailInputs : ForgotPassword(email)
  \/ \E r \in ResetReqs, token \in TokenInputs, pw \in PlainPasswords :
       ResetParse(r, token, pw)
  \/ \E r \in ResetReqs : ResetLookup(r)
  \/ \E r \in ResetReqs : ResetUpdatePassword(r)
  \/ \E r \in ResetReqs : ResetMarkUsed(r)
  \/ Tick

SpecReset == InitReset /\ [][NextReset]_vars

\* ============================================================ cohort registry
Callers == UserIds \cup {Anon}
NoUserId == 9          \* an id that matches no users row
NoCohortId == 0        \* an id that matches no cohorts row (or an absent field)
CohortIdInputs == (1 .. MaxCohortId) \cup {NoCohortId}
MembershipIdInputs == 1 .. MaxMembershipId
UserIdInputs == {2, 3, NoUserId}
MembershipRoles == {"member", "moderator"}
\* "" is an absent role field, "owner" a value outside the enum
RoleInputs == MembershipRoles \cup {"owner", ""}

RoleOf(u) == (CHOOSE row \in users : row.id = u).role

\* response bodies
NoBody == ""
AddForbiddenMsg == "Only moderators and admins can add members to a cohort"
UpdateForbiddenMsg == "Only moderators and admins can update membership roles"
RemoveForbiddenMsg == "Only moderators and admins can remove members from a cohort"
InvalidMembershipMsg == "Invalid cohort membership data"
InvalidRoleMsg == "Invalid role"
MembershipNotFoundMsg == "Membership not found"
InvalidCohortMsg == "Invalid cohort data"

\* ------------------------------------------------------------ storage calls
isCohortModerator_AnyCohort(ms, userId, cohortId) ==
  \E m \in ms : m.userId = userId /\ m.role = "moderator"

isCohortModerator_AnyRole(ms, userId, cohortId) ==
  \E m \in ms : m.userId = userId /\ m.cohortId = cohortId

isCohortModerator(ms, userId, cohortId) ==
  \E m \in ms : m.userId = userId /\ m.cohortId = cohortId /\ m.role = "moderator"

getCohortMembershipById(ms, id) == { m \in ms : m.id = id }

createCohortMembership_DefaultRole(ms, id, cohortId, userId, role) ==
  ms \cup { [id |-> id, userId |-> userId, cohortId |-> cohortId, role |-> "member"] }

createCohortMembership(ms, id, cohortId, userId, role) ==
  ms \cup { [id |-> id, userId |-> userId, cohortId |-> cohortId, role |-> role] }

updateCohortMembershipRole(ms, id, role) ==
  { IF m.id = id THEN [m EXCEPT !.role = role] ELSE m : m \in ms }

deleteCohortMembership_KeepLastModerator(ms, id) ==
  { m \in ms :
      \/ m.id # id
      \/ /\ m.role = "moderator"
         /\ ~\E k \in ms : k.id # m.id /\ k.cohortId = m.cohortId /\ k.role = "moderator" }

deleteCohortMembership(ms, id) == { m \in ms : m.id # id }

getCohort(cs, id) == { c \in cs : c.id = id }

membershipReferencesOk_CohortOnly(cs, cohortId, userId) ==
  getCohort(cs, cohortId) # {}

\* cohort_memberships.user_id references users.id, cohort_id references cohorts.id
membershipReferencesOk(cs, cohortId, userId) ==
  getUser(userId) # {} /\ getCohort(cs, cohortId) # {}

insertCohortMembershipSchemaOk_AnyRole(body) ==
  body.cohortId # NoCohortId

\* insertCohortMembershipSchema: userId and cohortId integers, role optional enum
insertCohortMembershipSchemaOk(body) ==
  /\ body.cohortId # NoCohortId
  /\ body.role \in MembershipRoles \cup {""}

\* the guard of the three cohort-membership routes:
\* !isModerator && req.user.role !== 'admin'  ->  403
mayManage_ModeratorOnly(ms, caller, cohortId) ==
  isCohortModerator(ms, caller, cohortId)

mayManage(ms, caller, cohortId) ==
  isCohortModerator(ms, caller, cohortId) \/ RoleOf(caller) = "admin"

\* what a route hands back: the response and the tables as the handler left them
Outcome(status, body, cs, ms, nextC, nextM) ==
  [status |-> status, body |-> body, cohorts |-> cs, memberships |-> ms,
   nextCohortId |-> nextC, nextMembershipId |-> nextM]

\* the last answered request, as its caller saw it
Answer(op, caller, out) ==
  [op |-> op, caller |-> caller, status |-> out.status, body |-> out.body]

NoMemberRequest == [op |-> "none", caller |-> Anon, status |-> 0, body |-> NoBody]

\* ------------------------------------------------ POST /api/cohort-membership
addMemberRoute(cs, ms, nextM, caller, body) ==
  IF caller = Anon
  THEN Outcome(401, NoBody, cs, ms, 0, nextM)
  ELSE IF ~mayManage(ms, caller, body.cohortId)
  THEN Outcome(403, AddForbiddenMsg, cs, ms, 0, nextM)
  ELSE IF ~insertCohortMembershipSchemaOk(body)
  THEN Outcome(400, InvalidMembershipMsg, cs, ms, 0, nextM)
  ELSE IF ~membershipReferencesOk(cs, body.cohortId, body.userId)
  THEN Outcome(400, InvalidMembershipMsg, cs, ms, 0, nextM + 1)
  ELSE Outcome(201, NoBody, cs,
               createCohortMembership(ms, nextM, body.cohortId, body.userId,
                                      IF body.role = "" THEN "member" ELSE body.role),
               0, nextM + 1)

AddMember(caller, cohortId, userId, role) ==
  LET out == addMemberRoute(cohorts, memberships, nextMembershipId, caller,
                            [cohortId |-> cohortId, userId |-> userId, role |-> role])
  IN /\ out.nextMembershipId <= MaxMembershipId + 1
     /\ memberships' = out.memberships
     /\ nextMembershipId' = out.nextMembershipId
     /\ last' = Answer("addMember", caller, out)
     /\ UNCHANGED <<cohorts, nextCohortId>>
     /\ UNCHANGED <<resetVars, contentVars, babyVars, authVars>>

\* --------------------------------------------- PUT /api/cohort-membership/:id
updateMembershipRoleRoute(ms, caller, membershipId, role) ==
  LET membership == getCohortMembershipById(ms, membershipId)
  IN IF caller = Anon
     THEN Outcome(401, NoBody, {}, ms, 0, 0)
     ELSE IF role \notin MembershipRoles
     THEN Outcome(400, InvalidRoleMsg, {}, ms, 0, 0)
     ELSE IF membership = {}
     THEN Outcome(404, MembershipNotFoundMsg, {}, ms, 0, 0)
     ELSE IF ~mayManage(ms, caller, (CHOOSE m \in membership : TRUE).cohortId)
     THEN Outcome(403, UpdateForbiddenMsg, {}, ms, 0, 0)
     ELSE Outcome(200, NoBody, {}, updateCohortMembershipRole(ms, membershipId, role), 0, 0)

UpdateMembershipRole(caller, membershipId, role) ==
  LET out == updateMembershipRoleRoute(memberships, caller, membershipId, role)
  IN /\ memberships' = out.memberships
     /\ last' = Answer("updateMembershipRole", caller, out)
     /\ UNCHANGED <<cohorts, nextCohortId, nextMembershipId>>
     /\ UNCHANGED <<resetVars, contentVars, babyVars, authVars>>

\* ------------------------------------------ DELETE /api/cohort-membership/:id
removeMemberRoute(ms, caller, membershipId) ==
  LET membership == getCohortMembershipById(ms, membershipId)
  IN IF caller = Anon
     THEN Outcome(401, NoBody, {}, ms, 0, 0)
     ELSE IF membership = {}
     THEN Outcome(404, MembershipNotFoundMsg, {}, ms, 0, 0)
     ELSE IF ~mayManage(ms, caller, (CHOOSE m \in membership : TRUE).cohortId)
     THEN Outcome(403, RemoveForbiddenMsg, {}, ms, 0, 0)
     ELSE Outcome(200, NoBody, {}, deleteCohortMembership(ms, membershipId), 0, 0)

RemoveMember(caller, membershipId) ==
  LET out == removeMemberRoute(memberships, caller, membershipId)
  IN /\ memberships' = out.memberships
     /\ last' = Answer("removeMember", caller, out)
     /\ UNCHANGED <<cohorts, nextCohortId, nextMembershipId>>
     /\ UNCHANGED <<resetVars, contentVars, babyVars, authVars>>

\* ----------------------------------------------------------- POST /api/cohorts
\* storage.createCohort(name, description, creatorId): insert the cohorts row,
\* then insert the creator's membership.  membershipFails: the second insert
\* throws (the store fails) and nothing undoes the first one.
createCohort(cs, ms, nextC, nextM, creatorId, membershipFails) ==
  LET withCohort == cs \cup { [id |-> nextC, creatorId |-> creatorId] }
  IN IF membershipFails
     THEN [threw |-> TRUE, cohorts |-> withCohort, memberships |-> ms,
           nextCohortId |-> nextC + 1, nextMembershipId |-> nextM]
     ELSE [threw |-> FALSE, cohorts |-> withCohort,
           memberships |-> createCohortMembership(ms, nextM, nextC, creatorId, "moderator"),
           nextCohortId |-> nextC + 1, nextMembershipId |-> nextM + 1]

\* insertCohortSchema.parse(req.body); createCohort; catch -> 400
createCohortRoute(cs, ms, nextC, nextM, caller, nameOk, membershipFails) ==
  IF caller = Anon
  THEN Outcome(401, NoBody, cs, ms, nextC, nextM)
  ELSE IF ~nameOk
  THEN Outcome(400, InvalidCohortMsg, cs, ms, nextC, nextM)
  ELSE LET made == createCohort(cs, ms, nextC, nextM, caller, membershipFails)
       IN Outcome(IF made.threw THEN 400 ELSE 201,
                  IF made.threw THEN InvalidCohortMsg ELSE NoBody,
                  made.cohorts, made.memberships, made.nextCohortId,
                  made.nextMembershipId)

CreateCohort(caller, nameOk, membershipFails) ==
  LET out == createCohortRoute(cohorts, memberships, nextCohortId, nextMembershipId,
                               caller, nameOk, membershipFails)
  IN /\ out.nextCohortId <= MaxCohortId + 1
     /\ out.nextMembershipId <= MaxMembershipId + 1
     /\ cohorts' = out.cohorts
     /\ memberships' = out.memberships
     /\ nextCohortId' = out.nextCohortId
     /\ nextMembershipId' = out.nextMembershipId
     /\ last' = Answer("createCohort", caller, out)
     /\ UNCHANGED <<resetVars, contentVars, babyVars, authVars>>

InitMember ==
  /\ cohorts = {}
  /\ memberships = {}
  /\ nextCohortId = 1
  /\ nextMembershipId = 1
  /\ InitNoContent
  /\ InitNoBabies
  /\ InitNoAccounts
  /\ last = NoMemberRequest
  /\ password = [u \in UserIds |-> hashPassword(Pw0, "s0")]
  /\ resetTokens = {}
  /\ nextTokenId = 1
  /\ now = 0
  /\ reset = [r \in ResetReqs |-> IdleReset]

NextMember ==
  \/ \E caller \in Callers, cohortId \in CohortIdInputs, userId \in UserIdInputs,
        role \in RoleInputs : AddMember(caller, cohortId, userId, role)
  \/ \E caller \in Callers, membershipId \in MembershipIdInputs, role \in RoleInputs :
       UpdateMembershipRole(caller, membershipId, role)
  \/ \E caller \in Callers, membershipId \in MembershipIdInputs :
       RemoveMember(caller, membershipId)
  \/ \E caller \in Callers, nameOk \in BOOLEAN, membershipFails \in BOOLEAN :
       CreateCohort(caller, nameOk, membershipFails)

SpecMember == InitMember /\ [][NextMember]_vars

\* ============================================================== content store
\* Post and comment text is a sequence of characters; " " is white space.
\* photoUrl, createdAt and updatedAt are carried by no claim and left out.
Empty == << >>
Contents == { Empty, <<" ">>, <<"h", "i">>, <<" ", "e">> }

RECURSIVE TrimStart(_)
TrimStart(s) == IF s # Empty /\ Head(s) = " " THEN TrimStart(Tail(s)) ELSE s
RECURSIVE TrimEnd(_)
TrimEnd(s) ==
  IF s # Empty /\ s[Len(s)] = " " THEN TrimEnd(SubSeq(s, 1, Len(s) - 1)) ELSE s
\* String.prototype.trim
trim(s) == TrimEnd(TrimStart(s))
\* !content || content.trim() === ""
isBlank(content) == content = Empty \/ trim(content) = Empty

PostIdInputs == 1 .. (MaxPostId + 1)
CommentIdInputs == 1 .. (MaxCommentId + 1)
Authors == {2, 3}

\* response bodies
InvalidPostMsg == "Invalid post data"
EmptyPostMsg == "Post content cannot be empty"
PostNotEditableMsg == "Post not found or you don't have permission to edit it"
PostNotDeletableMsg == "Post not found or you don't have permission to delete it"
DeletePostFailedMsg == "Failed to delete post"
InvalidCommentMsg == "Invalid comment data"
EmptyCommentMsg == "Comment content cannot be empty"
CommentNotEditableMsg == "Comment not found or you don't have permission to edit it"
CommentNotDeletableMsg == "Comment not found or you don't have permission to delete it"
SuccessBody == "{success: true}"

\* ------------------------------------------------------------ storage calls
getPost(ps, id) == { p \in ps : p.id = id }

createPost(ps, id, insertPost, userId) ==
  ps \cup { [id |-> id, userId |-> userId, cohortId |-> insertPost.cohortId,
             content |-> insertPost.content] }

\* result: the updated row, or {} for undefined
updatePost_NoOwnerCheck(ps, id, content, userId) ==
  [result |-> { [p EXCEPT !.content = content] : p \in getPost(ps, id) },
   posts |-> { IF p.id = id THEN [p EXCEPT !.content = content] ELSE p : p \in ps }]

updatePost(ps, id, content, userId) ==
  LET post == getPost(ps, id)
  IN IF post = {} \/ \E p \in post : p.userId # userId
     THEN [result |-> {}, posts |-> ps]
     ELSE [result |-> { [p EXCEPT !.content = content] : p \in post },
           posts |-> { IF p.id = id /\ p.userId = userId
                       THEN [p EXCEPT !.content = content] ELSE p : p \in ps }]

\* comments.post_id and upvotes.post_id reference posts.id, without cascade
postIsReferenced(cms, ups, id) ==
  (\E c \in cms : c.postId = id) \/ (\E v \in ups : v.postId = id)

deletePost_Cascade(ps, cms, ups, id, userId) ==
  LET post == getPost(ps, id)
  IN IF post = {} \/ \E p \in post : p.userId # userId
     THEN [result |-> FALSE, threw |-> FALSE, posts |-> ps]
     ELSE [result |-> TRUE, threw |-> FALSE,
           posts |-> { p \in ps : ~(p.id = id /\ p.userId = userId) }]

\* result: the boolean returned; threw: the delete raised a constraint error
deletePost(ps, cms, ups, id, userId) ==
  LET post == getPost(ps, id)
  IN IF post = {} \/ \E p \in post : p.userId # userId
     THEN [result |-> FALSE, threw |-> FALSE, posts |-> ps]
     ELSE IF postIsReferenced(cms, ups, id)
     THEN [result |-> FALSE, threw |-> TRUE, posts |-> ps]
     ELSE [result |-> TRUE, threw |-> FALSE,
           posts |-> { p \in ps : ~(p.id = id /\ p.userId = userId) }]

createComment(cms, id, insertComment, userId) ==
  cms \cup { [id |-> id, postId |-> insertComment.postId, userId |-> userId,
              content |-> insertComment.content] }

updateComment_AnyAuthor(cms, id, content, userId) ==
  LET comment == { c \in cms : c.id = id }
  IN IF comment = {}
     THEN [result |-> {}, comments |-> cms]
     ELSE [result |-> { [c EXCEPT !.content = content] : c \in comment },
           comments |-> { IF c.id = id
                          THEN [c EXCEPT !.content = content] ELSE c : c \in cms }]

updateComment(cms, id, content, userId) ==
  LET comment == { c \in cms : c.id = id /\ c.userId = userId }
  IN IF comment = {}
     THEN [result |-> {}, comments |-> cms]
     ELSE [result |-> { [c EXCEPT !.content = content] : c \in comment },
           comments |-> { IF c.id = id /\ c.userId = userId
                          THEN [c EXCEPT !.content = content] ELSE c : c \in cms }]

deleteComment(cms, id, userId) ==
  LET comment == { c \in cms : c.id = id /\ c.userId = userId }
  IN IF comment = {}
     THEN [result |-> FALSE, comments |-> cms]
     ELSE [result |-> TRUE,
           comments |-> { c \in cms : ~(c.id = id /\ c.userId = userId) }]

\* ------------------------------------------------------------------- routes
Reply(status, body, ps, cms, nextP, nextC) ==
  [status |-> status, body |-> body, posts |-> ps, comments |-> cms,
   nextPostId |-> nextP, nextCommentId |-> nextC]

\* POST /api/posts: insertPostSchema accepts any string as content; the
\* insert fails when cohortId names no cohort.
createPostRoute(cs, ps, nextP, caller, body) ==
  IF caller = Anon
  THEN Reply(401, NoBody, ps, {}, nextP, 0)
  ELSE IF getCohort(cs, body.cohortId) = {}
  THEN Reply(400, InvalidPostMsg, ps, {}, nextP + 1, 0)
  ELSE Reply(201, NoBody, createPost(ps, nextP, body, caller), {}, nextP + 1, 0)

\* PUT /api/posts/:id
updatePostRoute(ps, caller, postId, content) ==
  IF caller = Anon
  THEN Reply(401, NoBody, ps, {}, 0, 0)
  ELSE IF isBlank(content)
  THEN Reply(400, EmptyPostMsg, ps, {}, 0, 0)
  ELSE LET updated == updatePost(ps, postId, content, caller)
       IN IF updated.result = {}
          THEN Reply(404, PostNotEditableMsg, updated.posts, {}, 0, 0)
          ELSE Reply(200, NoBody, updated.posts, {}, 0, 0)

\* DELETE /api/posts/:id
deletePostRoute(ps, cms, ups, caller, postId) ==
  IF caller = Anon
  THEN Reply(401, NoBody, ps, {}, 0, 0)
  ELSE LET deleted == deletePost(ps, cms, ups, postId, caller)
       IN IF deleted.threw
          THEN Reply(500, DeletePostFailedMsg, deleted.posts, {}, 0, 0)
          ELSE IF ~deleted.result
          THEN Reply(404, PostNotDeletableMsg, deleted.posts, {}, 0, 0)
          ELSE Reply(200, SuccessBody, deleted.posts, {}, 0, 0)

\* POST /api/comments: the insert fails when postId names no post.
createCommentRoute(ps, cms, nextC, caller, body) ==
  IF caller = Anon
  THEN Reply(401, NoBody, {}, cms, 0, nextC)
  ELSE IF getPost(ps, body.postId) = {}
  THEN Reply(400, InvalidCommentMsg, {}, cms, 0, nextC + 1)
  ELSE Reply(201, NoBody, {}, createComment(cms, nextC, body, caller), 0, nextC + 1)

\* PUT /api/comments/:id
updateCommentRoute(cms, caller, commentId, content) ==
  IF caller = Anon
  THEN Reply(401, NoBody, {}, cms, 0, 0)
  ELSE IF isBlank(content)
  THEN Reply(400, EmptyCommentMsg, {}, cms, 0, 0)
  ELSE LET updated == updateComment(cms, commentId, content, caller)
       IN IF updated.result = {}
          THEN Reply(404, CommentNotEditableMsg, {}, updated.comments, 0, 0)
          ELSE Reply(200, NoBody, {}, updated.comments, 0, 0)

\* DELETE /api/comments/:id
deleteCommentRoute(cms, caller, commentId) ==
  IF caller = Anon
  THEN Reply(401, NoBody, {}, cms, 0, 0)
  ELSE LET deleted == deleteComment(cms, commentId, caller)
       IN IF ~deleted.result
          THEN Reply(404, CommentNotDeletableMsg, {}, deleted.comments, 0, 0)
          ELSE Reply(200, SuccessBody, {}, deleted.comments, 0, 0)

\* ------------------------------------------------------------------ actions
CreatePost(caller, cohortId, content) ==
  LET out == createPostRoute(cohorts, posts, nextPostId, caller,
                             [cohortId |-> cohortId, content |-> content])
  IN /\ out.nextPostId <= MaxPostId + 1
     /\ posts' = out.posts
     /\ nextPostId' = out.nextPostId
     /\ last' = Answer("createPost", caller, out)
     /\ UNCHANGED <<comments, nextCommentId, upvotes, nextUpvoteId, upreq>>
     /\ UNCHANGED <<resetVars, memberVars, babyVars, authVars>>

UpdatePost(caller, postId, content) ==
  LET out == updatePostRoute(posts, caller, postId, content)
  IN /\ posts' = out.posts
     /\ last' = Answer("updatePost", caller, out)
     /\ UNCHANGED <<nextPostId, comments, nextCommentId, upvotes, nextUpvoteId, upreq>>
     /\ UNCHANGED <<resetVars, memberVars, babyVars, authVars>>

DeletePost(caller, postId) ==
  LET out == deletePostRoute(posts, comments, upvotes, caller, postId)
  IN /\ posts' = out.posts
     /\ last' = Answer("deletePost", caller, out)
     /\ UNCHANGED <<nextPostId, comments, nextCommentId, upvotes, nextUpvoteId, upreq>>
     /\ UNCHANGED <<resetVars, memberVars, babyVars, authVars>>

CreateComment(caller, postId, content) ==
  LET out == createCommentRoute(posts, comments, nextCommentId, caller,
                                [postId |-> postId, content |-> content])
  IN /\ out.nextCommentId <= MaxCommentId + 1
     /\ comments' = out.comments
     /\ nextCommentId' = out.nextCommentId
     /\ last' = Answer("createComment", caller, out)
     /\ UNCHANGED <<posts, nextPostId, upvotes, nextUpvoteId, upreq>>
     /\ UNCHANGED <<resetVars, memberVars, babyVars, authVars>>

UpdateComment(caller, commentId, content) ==
  LET out == updateCommentRoute(comments, caller, commentId, content)
  IN /\ comments' = out.comments
     /\ last' = Answer("updateComment", caller, out)
     /\ UNCHANGED <<posts, nextPostId, nextCommentId, upvotes, nextUpvoteId, upreq>>
     /\ UNCHANGED <<resetVars, memberVars, babyVars, authVars>>

DeleteComment(caller, commentId) ==
  LET out == deleteCommentRoute(comments, caller, commentId)
  IN /\ comments' = out.comments
     /\ last' = Answer("deleteComment", caller, out)
     /\ UNCHANGED <<posts, nextPostId, nextCommentId, upvotes, nextUpvoteId, upreq>>
     /\ UNCHANGED <<resetVars, memberVars, babyVars, authVars>>

\* The content specifications start from a registry the cohort routes can
\* produce: user 2 created cohort 1 and added user 3 as a member.
ContentCohorts == { [id |-> 1, creatorId |-> 2] }
ContentMemberships ==
  { [id |-> 1, userId |-> 2, cohortId |-> 1, role |-> "moderator"],
    [id |-> 2, userId |-> 3, cohortId |-> 1, role |-> "member"] }

InitOthersForContent ==
  /\ cohorts = ContentCohorts
  /\ memberships = ContentMemberships
  /\ nextCohortId = 2
  /\ nextMembershipId = 3
  /\ password = [u \in UserIds |-> hashPassword(Pw0, "s0")]
  /\ resetTokens = {}
  /\ nextTokenId = 1
  /\ now = 0
  /\ reset = [r \in ResetReqs |-> IdleReset]
  /\ last = NoMemberRequest
  /\ InitNoBabies
  /\ InitNoAccounts

InitContent ==
  /\ InitOthersForContent
  /\ InitNoContent

NextContent ==
  \/ \E caller \in Authors \cup {Anon}, cohortId \in {1, 2}, content \in Contents :
       CreatePost(caller, cohortId, content)
  \/ \E caller \in Callers, postId \in PostIdInputs, content \in Contents :
       UpdatePost(caller, postId, content)
  \/ \E caller \in Callers, postId \in PostIdInputs : DeletePost(caller, postId)
  \/ \E caller \in Authors \cup {Anon}, postId \in PostIdInputs, content \in Contents :
       CreateComment(caller, postId, content)
  \/ \E caller \in Callers, commentId \in CommentIdInputs, content \in Contents :
       UpdateComment(caller, commentId, content)
  \/ \E caller \in Callers, commentId \in CommentIdInputs : DeleteComment(caller, commentId)

SpecContent == InitContent /\ [][NextContent]_vars

\* ================================================================== upvotes
InvalidUpvoteMsg == "Invalid upvote data"
AlreadyUpvotedMsg == "You have already upvoted this post"
NotUpvotedMsg == "You have not upvoted this post"

pairRows(ups, postId, userId) ==
  { v \in ups : v.postId = postId /\ v.userId = userId }

hasUserUpvoted_PostOnly(ups, postId, userId) ==
  \E v \in ups : v.postId = postId

hasUserUpvoted(ups, postId, userId) ==
  \E v \in ups : v.postId = postId /\ v.userId = userId

getUpvoteCount(ups, postId) == Cardinality({ v \in ups : v.postId = postId })

\* the insert of createUpvote; it fails only on a foreign key
insertUpvote_UniquePair(ps, ups, id, postId, userId) ==
  IF getPost(ps, postId) = {} \/ getUser(userId) = {}
        \/ pairRows(ups, postId, userId) # {}
  THEN [threw |-> TRUE, upvotes |-> ups]
  ELSE [threw |-> FALSE,
        upvotes |-> ups \cup { [id |-> id, postId |-> postId, userId |-> userId] }]

insertUpvote(ps, ups, id, postId, userId) ==
  IF getPost(ps, postId) = {} \/ getUser(userId) = {}
  THEN [threw |-> TRUE, upvotes |-> ups]
  ELSE [threw |-> FALSE,
        upvotes |-> ups \cup { [id |-> id, postId |-> postId, userId |-> userId] }]

removeUpvote(ups, postId, userId) ==
  { v \in ups : ~(v.postId = postId /\ v.userId = userId) }

UpvoteDone(r, status, body) ==
  upreq' = [upreq EXCEPT ![r].pc = "done", ![r].status = status, ![r].body = body]

UnchangedByUpvote ==
  /\ UNCHANGED <<posts, comments, nextPostId, nextCommentId, last>>
  /\ UNCHANGED <<resetVars, memberVars, babyVars, authVars>>

\* POST /api/upvotes: authentication and insertUpvoteSchema.parse
upvoteArrives(caller, postId) ==
  IF caller = Anon
  THEN [pc |-> "done", op |-> "upvote", caller |-> caller, postId |-> postId,
        status |-> 401, body |-> NoBody]
  ELSE [pc |-> "check", op |-> "upvote", caller |-> caller, postId |-> postId,
        status |-> 0, body |-> NoBody]

UpvoteBegin(r, caller, postId) ==
  /\ upreq[r].pc = "idle"
  /\ upreq' = [upreq EXCEPT ![r] = upvoteArrives(caller, postId)]
  /\ UNCHANGED <<upvotes, nextUpvoteId>>
  /\ UnchangedByUpvote

\* createUpvote: await hasUserUpvoted(...), throw when it answers true
UpvoteCheck(r) ==
  /\ upreq[r].pc = "check"
  /\ IF hasUserUpvoted(upvotes, upreq[r].postId, upreq[r].caller)
     THEN UpvoteDone(r, 409, AlreadyUpvotedMsg)
     ELSE upreq' = [upreq EXCEPT ![r].pc = "insert"]
  /\ UNCHANGED <<upvotes, nextUpvoteId>>
  /\ UnchangedByUpvote

\* createUpvote: the insert, then the 201 answer (400 when the insert throws)
UpvoteInsert(r) ==
  /\ upreq[r].pc = "insert"
  /\ nextUpvoteId <= MaxUpvoteId
  /\ LET ins == insertUpvote(posts, upvotes, nextUpvoteId, upreq[r].postId,
                             upreq[r].caller)
     IN /\ upvotes' = ins.upvotes
        /\ nextUpvoteId' = nextUpvoteId + 1
        /\ IF ins.threw
           THEN UpvoteDone(r, 400, InvalidUpvoteMsg)
           ELSE UpvoteDone(r, 201, NoBody)
  /\ UnchangedByUpvote

\* DELETE /api/posts/:id/upvotes: authentication
removeArrives(caller, postId) ==
  IF caller = Anon
  THEN [pc |-> "done", op |-> "remove", caller |-> caller, postId |-> postId,
        status |-> 401, body |-> NoBody]
  ELSE [pc |-> "rcheck", op |-> "remove", caller |-> caller, postId |-> postId,
        status |-> 0, body |-> NoBody]

RemoveBegin(r, caller, postId) ==
  /\ upreq[r].pc = "idle"
  /\ upreq' = [upreq EXCEPT ![r] = removeArrives(caller, postId)]
  /\ UNCHANGED <<upvotes, nextUpvoteId>>
  /\ UnchangedByUpvote

\* await hasUserUpvoted(...), 404 when it answers false
RemoveCheck(r) ==
  /\ upreq[r].pc = "rcheck"
  /\ IF ~hasUserUpvoted(upvotes, upreq[r].postId, upreq[r].caller)
     THEN UpvoteDone(r, 404, NotUpvotedMsg)
     ELSE upreq' = [upreq EXCEPT ![r].pc = "delete"]
  /\ UNCHANGED <<upvotes, nextUpvoteId>>
  /\ UnchangedByUpvote

\* await removeUpvote(...), then the 200 answer
RemoveDelete(r) ==
  /\ upreq[r].pc = "delete"
  /\ upvotes' = removeUpvote(upvotes, upreq[r].postId, upreq[r].caller)
  /\ UpvoteDone(r, 200, SuccessBody)
  /\ UNCHANGED nextUpvoteId
  /\ UnchangedByUpvote

\* the connection of an answered request is free for the next request
UpvoteRelease(r) ==
  /\ upreq[r].pc = "done"
  /\ upreq' = [upreq EXCEPT ![r] = IdleUpvote]
  /\ UNCHANGED <<upvotes, nextUpvoteId>>
  /\ UnchangedByUpvote

\* Posts 1 (by user 2) and 2 (by user 3) exist; post id 3 names no post.
UpvotePosts ==
  { [id |-> 1, userId |-> 2, cohortId |-> 1, content |-> <<"h", "i">>],
    [id |-> 2, userId |-> 3, cohortId |-> 1, content |-> <<"h", "i">>] }
UpvotePostIds == {1, 2, 3}
Voters == {2, 3}

InitUpvote ==
  /\ InitOthersForContent
  /\ posts = UpvotePosts
  /\ comments = {}
  /\ upvotes = {}
  /\ nextPostId = 3
  /\ nextCommentId = 1
  /\ nextUpvoteId = 1
  /\ upreq = [r \in UpvoteReqs |-> IdleUpvote]

UpvoteStep(r) ==
  \/ UpvoteCheck(r)
  \/ UpvoteInsert(r)
  \/ RemoveCheck(r)
  \/ RemoveDelete(r)
  \/ UpvoteRelease(r)

NextUpvote ==
  \/ \E r \in UpvoteReqs, caller \in Voters \cup {Anon}, postId \in UpvotePostIds :
       UpvoteBegin(r, caller, postId)
  \/ \E r \in UpvoteReqs, caller \in Voters \cup {Anon}, postId \in UpvotePostIds :
       RemoveBegin(r, caller, postId)
  \/ \E r \in UpvoteReqs : UpvoteStep(r)

SpecUpvote == InitUpvote /\ [][NextUpvote]_vars

\* Sequential use: a request starts only when no other request is between
\* its first and its last step.
NoneInFlight == \A q \in UpvoteReqs : upreq[q].pc \in {"idle", "done"}

NextUpvoteSeq ==
  \/ \E r \in UpvoteReqs, caller \in Voters \cup {Anon}, postId \in UpvotePostIds :
       NoneInFlight /\ UpvoteBegin(r, caller, postId)
  \/ \E r \in UpvoteReqs, caller \in Voters \cup {Anon}, postId \in UpvotePostIds :
       NoneInFlight /\ RemoveBegin(r, caller, postId)
  \/ \E r \in UpvoteReqs : UpvoteStep(r)

SpecUpvoteSeq == InitUpvote /\ [][NextUpvoteSeq]_vars

\* =================================================================== babies
\* Calendar arithmetic of Date and date-fns.  The server clock runs in UTC, so
\* a local date and the date part of its toISOString() are the same day.
EpochYear == 2024      \* day numbers count from 2024-01-01, a Monday
isLeapYear(y) == (y % 4 = 0 /\ y % 100 # 0) \/ y % 400 = 0
getDaysInMonth(y, m) ==
  IF m = 2 THEN (IF isLeapYear(y) THEN 29 ELSE 28)
  ELSE IF m \in {4, 6, 9, 11} THEN 30 ELSE 31

RECURSIVE DaysBeforeYear(_)
DaysBeforeYear(y) ==
  IF y <= EpochYear THEN 0
  ELSE DaysBeforeYear(y - 1) + (IF isLeapYear(y - 1) THEN 366 ELSE 365)
RECURSIVE DaysBeforeMonth(_, _)
DaysBeforeMonth(y, m) ==
  IF m = 1 THEN 0 ELSE DaysBeforeMonth(y, m - 1) + getDaysInMonth(y, m - 1)
DayNumber(d) == DaysBeforeYear(d[1]) + DaysBeforeMonth(d[1], d[2]) + d[3] - 1

\* Date.prototype.getDay: 0 is Sunday
getDay(d) == (DayNumber(d) + 1) % 7
getDate(d) == d[3]

\* Date.prototype.setDate: a day below 1 counts back into the previous month
RECURSIVE setDate(_, _)
setDate(d, n) ==
  IF n >= 1 THEN <<d[1], d[2], n>>
  ELSE LET py == IF d[2] = 1 THEN d[1] - 1 ELSE d[1]
           pm == IF d[2] = 1 THEN 12 ELSE d[2] - 1
       IN setDate(<<py, pm, 1>>, n + getDaysInMonth(py, pm))

startOfMonth(d) == <<d[1], d[2], 1>>
endOfMonth(d) == <<d[1], d[2], getDaysInMonth(d[1], d[2])>>
RECURSIVE addMonths(_, _)
addMonths(d, n) ==
  IF n = 0 THEN d
  ELSE LET ny == IF d[2] = 12 THEN d[1] + 1 ELSE d[1]
           nm == IF d[2] = 12 THEN 1 ELSE d[2] + 1
           nd == IF d[3] > getDaysInMonth(ny, nm) THEN getDaysInMonth(ny, nm) ELSE d[3]
       IN addMonths(<<ny, nm, nd>>, n - 1)

\* createBaby: birthWeek.setDate(birthDate.getDate() - birthDate.getDay())
birthWeekOf(birthDate) == setDate(birthDate, getDate(birthDate) - getDay(birthDate))

\* getOrCreateCohort: start and end of the range of its argument
CohortRange(date) ==
  [start |-> startOfMonth(date),
   end |-> endOfMonth(addMonths(startOfMonth(date), 1))]

BirthDateInputs ==
  { <<2024, 12, 31>>, <<2025, 1, 1>>, <<2025, 1, 15>>, <<2025, 2, 1>>, NoDate }
Parents == {2, 3}

InvalidBabyMsg == "Invalid baby data"

\* select from cohorts where start_date = start and end_date = end
findCohortByRange_Swapped(ranges, start, end) ==
  { c \in ranges : c.startDate = end /\ c.endDate = start }

findCohortByRange(ranges, start, end) ==
  { c \in ranges : c.startDate = start /\ c.endDate = end }

\* insert into cohorts (name, startDate, endDate, creatorId: 1); the only
\* constraint on the row is the reference creator_id -> users.id
insertCohort_UniqueRange(cs, ranges, id, start, end) ==
  IF getUser(AdminId) = {} \/ findCohortByRange(ranges, start, end) # {}
  THEN [threw |-> TRUE, cohorts |-> cs, cohortRanges |-> ranges]
  ELSE [threw |-> FALSE,
        cohorts |-> cs \cup { [id |-> id, creatorId |-> AdminId] },
        cohortRanges |-> ranges \cup
          { [id |-> id, startDate |-> start, endDate |-> end] }]

insertCohort(cs, ranges, id, start, end) ==
  IF getUser(AdminId) = {}
  THEN [threw |-> TRUE, cohorts |-> cs, cohortRanges |-> ranges]
  ELSE [threw |-> FALSE,
        cohorts |-> cs \cup { [id |-> id, creatorId |-> AdminId] },
        cohortRanges |-> ranges \cup
          { [id |-> id, startDate |-> start, endDate |-> end] }]

\* every createBaby request carries the same name and no photo
FirstName == "n0"
NoPhoto == ""
insertBaby(bs, id, birthDate, birthWeek, userId, cohortId) ==
  bs \cup { [id |-> id, userId |-> userId, name |-> FirstName,
             birthDate |-> birthDate, birthWeek |-> birthWeek,
             cohortId |-> cohortId, photoUrl |-> NoPhoto] }

BabyDone(r, status, body) ==
  breq' = [breq EXCEPT ![r].pc = "done", ![r].status = status, ![r].body = body]

UnchangedByBaby ==
  /\ UNCHANGED <<memberships, nextMembershipId, last>>
  /\ UNCHANGED <<resetVars, contentVars, authVars>>

\* POST /api/baby: authentication, insertBabySchema.parse, and the dates that
\* createBaby and getOrCreateCohort compute before their first query; the
\* toISOString() of an invalid date throws and the route answers 400
babyArrives(caller, birthDate) ==
  IF caller = Anon
  THEN [IdleBaby EXCEPT !.pc = "done", !.status = 401]
  ELSE IF birthDate = NoDate
  THEN [IdleBaby EXCEPT !.pc = "done", !.caller = caller, !.status = 400,
                        !.body = InvalidBabyMsg]
  ELSE LET birthWeek == birthWeekOf(birthDate)
           range == CohortRange(birthWeek)
       IN [IdleBaby EXCEPT !.pc = "lookup", !.caller = caller,
                           !.birthDate = birthDate, !.birthWeek = birthWeek,
                           !.start = range.start, !.end = range.end]

BabyBegin(r, caller, birthDate) ==
  /\ breq[r].pc = "idle"
  /\ breq' = [breq EXCEPT ![r] = babyArrives(caller, birthDate)]
  /\ UNCHANGED <<cohorts, nextCohortId, babies, nextBabyId, cohortRanges>>
  /\ UnchangedByBaby

\* getOrCreateCohort: const [existingCohort] = await db.select()...
BabyLookup(r) ==
  /\ breq[r].pc = "lookup"
  /\ LET found == findCohortByRange(cohortRanges, breq[r].start, breq[r].end)
     IN IF found = {}
        THEN breq' = [breq EXCEPT ![r].pc = "insertCohort"]
        ELSE \E existingCohort \in found :
               breq' = [breq EXCEPT ![r].pc = "insertBaby",
                                    ![r].cohortId = existingCohort.id]
  /\ UNCHANGED <<cohorts, nextCohortId, babies, nextBabyId, cohortRanges>>
  /\ UnchangedByBaby

\* getOrCreateCohort: const [cohort] = await db.insert(cohorts)...
BabyInsertCohort(r) ==
  /\ breq[r].pc = "insertCohort"
  /\ nextCohortId <= MaxCohortId
  /\ LET ins == insertCohort(cohorts, cohortRanges, nextCohortId,
                             breq[r].start, breq[r].end)
     IN /\ cohorts' = ins.cohorts
        /\ cohortRanges' = ins.cohortRanges
        /\ nextCohortId' = nextCohortId + 1
        /\ IF ins.threw
           THEN BabyDone(r, 400, InvalidBabyMsg)
           ELSE breq' = [breq EXCEPT ![r].pc = "insertBaby",
                                     ![r].cohortId = nextCohortId]
  /\ UNCHANGED <<babies, nextBabyId>>
  /\ UnchangedByBaby

\* createBaby: const [baby] = await db.insert(babies)...; res.status(201)
BabyInsertBaby(r) ==
  /\ breq[r].pc = "insertBaby"
  /\ nextBabyId <= MaxBabyId
  /\ babies' = insertBaby(babies, nextBabyId, breq[r].birthDate, breq[r].birthWeek,
                          breq[r].caller, breq[r].cohortId)
  /\ nextBabyId' = nextBabyId + 1
  /\ BabyDone(r, 201, NoBody)
  /\ UNCHANGED <<cohorts, nextCohortId, cohortRanges>>
  /\ UnchangedByBaby

\* the connection of an answered request is free for the next request
BabyRelease(r) ==
  /\ breq[r].pc = "done"
  /\ breq' = [breq EXCEPT ![r] = IdleBaby]
  /\ UNCHANGED <<cohorts, nextCohortId, babies, nextBabyId, cohortRanges>>
  /\ UnchangedByBaby

InitBaby == InitMember

BabyStep(r) ==
  \/ BabyLookup(r)
  \/ BabyInsertCohort(r)
  \/ BabyInsertBaby(r)
  \/ BabyRelease(r)

NextBaby ==
  \/ \E r \in BabyReqs, caller \in Parents \cup {Anon}, birthDate \in BirthDateInputs :
       BabyBegin(r, caller, birthDate)
  \/ \E r \in BabyReqs : BabyStep(r)

SpecBaby == InitBaby /\ [][NextBaby]_vars

\* Sequential use: a createBaby request starts only when no other one is
\* between its first and its last step.
NoBabyInFlight == \A q \in BabyReqs : breq[q].pc \in {"idle", "done"}

NextBabySeq ==
  \/ \E r \in BabyReqs, caller \in Parents \cup {Anon}, birthDate \in BirthDateInputs :
       NoBabyInFlight /\ BabyBegin(r, caller, birthDate)
  \/ \E r \in BabyReqs : BabyStep(r)

SpecBabySeq == InitBaby /\ [][NextBabySeq]_vars

\* ============================================================== read routes
\* A read route answers a status and the rows of its JSON body (a set: the
\* order of the rows is not modelled).
Read(status, rows) == [status |-> status, rows |-> rows]

EmailQueryInputs == EmailInputs \cup {""}
AbsentDate == << >>

getBabyByUserId(bs, userId) == { b \in bs : b.userId = userId }

\* the select of getBabyByUserId returns one row; with several rows of one
\* user it is any of them, so the route is given the row that came first
FirstBabyChoices(bs, userId) ==
  IF getBabyByUserId(bs, userId) = {} THEN { {} }
  ELSE { {b} : b \in getBabyByUserId(bs, userId) }

\* GET /api/baby
getBabyRoute(caller, first) ==
  IF caller = Anon THEN Read(401, {})
  ELSE IF first = {} THEN Read(404, {})
  ELSE Read(200, first)

\* updateData: the request body; an absent name or photoUrl is "", an absent
\* birthDate is AbsentDate
AbsentField == ""
setName(b, updateData) ==
  IF updateData.name = AbsentField THEN b ELSE [b EXCEPT !.name = updateData.name]
setBirthDate(b, updateData) ==
  IF updateData.birthDate = AbsentDate THEN b
  ELSE [b EXCEPT !.birthDate = updateData.birthDate,
                 !.birthWeek = birthWeekOf(updateData.birthDate)]
setPhotoUrl(b, updateData) ==
  IF updateData.photoUrl = AbsentField THEN b
  ELSE [b EXCEPT !.photoUrl = updateData.photoUrl]
updateValues(b, updateData) ==
  setPhotoUrl(setBirthDate(setName(b, updateData), updateData), updateData)

\* first: the row getBabyByUserId(userId) returned.  threw: toISOString() of
\* an invalid birthDate raised a RangeError before the update was sent
updateBaby_NoOwnerCheck(bs, id, updateData, first) ==
  IF updateData.birthDate = NoDate
  THEN [threw |-> TRUE, result |-> {}, babies |-> bs]
  ELSE [threw |-> FALSE,
        result |-> { updateValues(b, updateData) : b \in { x \in bs : x.id = id } },
        babies |-> { IF b.id = id THEN updateValues(b, updateData) ELSE b : b \in bs }]

updateBaby(bs, id, updateData, first) ==
  IF first = {} \/ \E b \in first : b.id # id
  THEN [threw |-> FALSE, result |-> {}, babies |-> bs]
  ELSE IF updateData.birthDate = NoDate
  THEN [threw |-> TRUE, result |-> {}, babies |-> bs]
  ELSE [threw |-> FALSE,
        result |-> { updateValues(b, updateData) : b \in { x \in bs : x.id = id } },
        babies |-> { IF b.id = id THEN updateValues(b, updateData) ELSE b : b \in bs }]

\* PUT /api/baby/:id
updateBabyRoute(bs, caller, babyId, updateData, first) ==
  IF caller = Anon
  THEN [status |-> 401, babies |-> bs]
  ELSE IF /\ updateData.name = AbsentField
          /\ updateData.birthDate = AbsentDate
          /\ updateData.photoUrl = AbsentField
  THEN [status |-> 400, babies |-> bs]
  ELSE LET updated == updateBaby(bs, babyId, updateData, first)
       IN IF updated.threw
          THEN [status |-> 500, babies |-> updated.babies]
          ELSE IF updated.result = {}
          THEN [status |-> 404, babies |-> updated.babies]
          ELSE [status |-> 200, babies |-> updated.babies]

\* ------------------------------------------------------- editing a baby
UpdateBaby(caller, babyId, updateData, first) ==
  LET out == updateBabyRoute(babies, caller, babyId, updateData, first)
  IN /\ first \in FirstBabyChoices(babies, caller)
     /\ babies' = out.babies
     /\ last' = [op |-> "updateBaby", caller |-> caller, status |-> out.status,
                 body |-> NoBody]
     /\ UNCHANGED <<cohorts, nextCohortId, nextBabyId, cohortRanges, breq>>
     /\ UNCHANGED <<memberships, nextMembershipId>>
     /\ UNCHANGED <<resetVars, contentVars, authVars>>

\* Babies are created one request at a time on the first connection, all
\* born on the same day, and then edited.
EditConnection == CHOOSE r \in BabyReqs : \A q \in BabyReqs : r <= q
EditBirthDate == <<2025, 1, 15>>
UpdateInputs ==
  [name : {AbsentField, "n1"},
   birthDate : {AbsentDate, NoDate, <<2025, 4, 1>>},
   photoUrl : {AbsentField, "p1"}]

InitBabyEdit == InitBaby

NextBabyEdit ==
  \/ \E caller \in Parents :
       NoBabyInFlight /\ BabyBegin(EditConnection, caller, EditBirthDate)
  \/ BabyStep(EditConnection)
  \/ \E caller \in Parents, babyId \in 1 .. MaxBabyId,
        updateData \in UpdateInputs,
        first \in { {} } \cup { {b} : b \in babies } :
       UpdateBaby(caller, babyId, updateData, first)

SpecBabyEdit == InitBabyEdit /\ [][NextBabyEdit]_vars

\* GET /api/cohorts/:id
getCohortRoute(cs, caller, cohortId) ==
  IF caller = Anon THEN Read(401, {})
  ELSE IF getCohort(cs, cohortId) = {} THEN Read(404, {})
  ELSE Read(200, getCohort(cs, cohortId))

getPostsByCohort(ps, cohortId) == { p \in ps : p.cohortId = cohortId }

\* GET /api/cohorts/:id/posts: each post with its author's users row
getCohortPostsRoute(ps, pws, caller, cohortId) ==
  IF caller = Anon THEN Read(401, {})
  ELSE Read(200, { [post |-> p,
                    user |-> { [id |-> u.id, email |-> u.email, role |-> u.role,
                                password |-> pws[u.id]] : u \in getUser(p.userId) }]
                   : p \in getPostsByCohort(ps, cohortId) })

\* users joined with cohort_memberships of the cohort
getCohortMembers(ms, pws, cohortId) ==
  { [id |-> u.id, password |-> pws[u.id], email |-> u.email, role |-> u.role,
     membershipId |-> m.id, membershipRole |-> m.role]
    : <<u, m>> \in { pair \in users \X ms :
                       pair[1].id = pair[2].userId /\ pair[2].cohortId = cohortId } }

getCohortModerators(ms, pws, cohortId) ==
  { row \in getCohortMembers(ms, pws, cohortId) : row.membershipRole = "moderator" }

\* GET /api/cohorts/:id/members
getCohortMembersRoute(ms, pws, caller, cohortId) ==
  IF caller = Anon THEN Read(401, {})
  ELSE Read(200, getCohortMembers(ms, pws, cohortId))

\* GET /api/cohorts/:id/moderators
getCohortModeratorsRoute(ms, pws, caller, cohortId) ==
  IF caller = Anon THEN Read(401, {})
  ELSE Read(200, getCohortModerators(ms, pws, cohortId))

\* GET /api/cohorts/:id/is-moderator
isModeratorRoute(ms, caller, cohortId) ==
  IF caller = Anon THEN Read(401, {})
  ELSE Read(200, {isCohortModerator(ms, caller, cohortId)})

\* GET /api/user/by-email
getUserByEmailRoute(caller, email) ==
  IF caller = Anon THEN Read(401, {})
  ELSE IF email = "" THEN Read(400, {})
  ELSE IF getUserByEmail(email) = {} THEN Read(404, {})
  ELSE Read(200, { [id |-> u.id, email |-> u.email] : u \in getUserByEmail(email) })

\* GET /api/users
getUsersRoute(caller) ==
  IF caller = Anon THEN Read(401, {})
  ELSE IF RoleOf(caller) # "admin" THEN Read(403, {})
  ELSE Read(200, users)

\* GET /api/cohorts
getCohortsRoute(cs, caller) ==
  IF caller = Anon THEN Read(401, {}) ELSE Read(200, cs)

getUserCohorts(cs, ms, userId) ==
  { c \in cs : \E m \in ms : m.cohortId = c.id /\ m.userId = userId }

\* GET /api/user/cohorts
getUserCohortsRoute(cs, ms, caller) ==
  IF caller = Anon THEN Read(401, {}) ELSE Read(200, getUserCohorts(cs, ms, caller))

\* each member of the cohort that has a baby, with a baby row of that member
getCohortBabiesWithParents(ms, pws, bs, cohortId) ==
  { [user |-> [id |-> member.id, email |-> member.email, role |-> member.role,
               membershipRole |-> member.membershipRole],
     baby |-> b]
    : <<member, b>> \in { pair \in getCohortMembers(ms, pws, cohortId) \X bs :
                            pair[2].userId = pair[1].id } }

\* GET /api/cohorts/:id/babies
getCohortBabiesRoute(ms, pws, bs, caller, cohortId) ==
  IF caller = Anon THEN Read(401, {})
  ELSE Read(200, getCohortBabiesWithParents(ms, pws, bs, cohortId))

getCommentsWithUsersByPost(cms, postId) ==
  { c \in cms : c.postId = postId /\ getUser(c.userId) # {} }

\* GET /api/posts/:id/comments
getCommentsRoute(cms, caller, postId) ==
  IF caller = Anon THEN Read(401, {})
  ELSE Read(200, getCommentsWithUsersByPost(cms, postId))

\* GET /api/posts/:id/upvotes/count
getUpvoteCountRoute_Public(ups, caller, postId) ==
  Read(200, {getUpvoteCount(ups, postId)})

getUpvoteCountRoute(ups, caller, postId) ==
  IF caller = Anon THEN Read(401, {}) ELSE Read(200, {getUpvoteCount(ups, postId)})

\* GET /api/posts/:id/upvotes/user
getUserUpvoteRoute(ups, caller, postId) ==
  IF caller = Anon THEN Read(401, {})
  ELSE Read(200, {hasUserUpvoted(ups, postId, caller)})

\* ========================================================= accounts, sessions
Usernames == {"ann", "bob"}
UsernameInputs == Usernames \cup {"zed"}
AccountPasswords == {PwA, PwB}
\* request bodies of POST /api/register
RegisterBodies ==
  { [username |-> "ann", email |-> "ann@example.org", password |-> PwA],
    [username |-> "ann", email |-> "bob@example.org", password |-> PwB],
    [username |-> "bob", email |-> "bob@example.org", password |-> PwA],
    [username |-> "bob", email |-> "ann@example.org", password |-> PwB] }

UsernameExistsMsg == "Username already exists"
InvalidCredentialsMsg == "Invalid username or password"
InternalErrorBody == "Internal Server Error"

getUserByUsername(accts, username) == { a \in accts : a.username = username }
getAccount(accts, id) == { a \in accts : a.id = id }

comparePasswords_Unsalted(supplied, stored) == stored.hash = supplied

\* scrypt of the supplied password with the stored salt equals the stored hash
comparePasswords(supplied, stored) == stored.hash = <<supplied, stored.salt>>

\* insert into users; username and email are unique columns
createUser_NoUnique(accts, id, insertUser) ==
  [threw |-> FALSE,
   accounts |-> accts \cup { [id |-> id, username |-> insertUser.username,
                              email |-> insertUser.email,
                              password |-> insertUser.password, role |-> "user"] }]

createUser(accts, id, insertUser) ==
  IF \E a \in accts : a.username = insertUser.username \/ a.email = insertUser.email
  THEN [threw |-> TRUE, accounts |-> accts]
  ELSE [threw |-> FALSE,
        accounts |-> accts \cup { [id |-> id, username |-> insertUser.username,
                                   email |-> insertUser.email,
                                   password |-> insertUser.password, role |-> "user"] }]

\* LocalStrategy verify callback: the user, or {} for done(null, false)
verify(accts, username, pw) ==
  { a \in getUserByUsername(accts, username) : comparePasswords(pw, a.password) }

\* req.isAuthenticated() and req.user of a request on session s
callerOf(sess, s) == sess[s]

\* POST /api/login
loginRoute_UnknownIs404(accts, sess, s, username, pw) ==
  LET user == verify(accts, username, pw)
  IN IF getUserByUsername(accts, username) = {}
     THEN [status |-> 404, body |-> InvalidCredentialsMsg, sessions |-> sess]
     ELSE IF user = {}
     THEN [status |-> 401, body |-> InvalidCredentialsMsg, sessions |-> sess]
     ELSE [status |-> 200, body |-> NoBody,
           sessions |-> [sess EXCEPT ![s] = (CHOOSE a \in user : TRUE).id]]

loginRoute(accts, sess, s, username, pw) ==
  LET user == verify(accts, username, pw)
  IN IF user = {}
     THEN [status |-> 401, body |-> InvalidCredentialsMsg, sessions |-> sess]
     ELSE [status |-> 200, body |-> NoBody,
           sessions |-> [sess EXCEPT ![s] = (CHOOSE a \in user : TRUE).id]]

\* POST /api/logout: req.logout
logoutRoute(sess, s) ==
  [status |-> 200, body |-> NoBody, sessions |-> [sess EXCEPT ![s] = Anon]]

\* GET /api/user
getCurrentUserRoute(accts, sess, s) ==
  IF callerOf(sess, s) = Anon
  THEN [status |-> 401, user |-> {}]
  ELSE [status |-> 200, user |-> getAccount(accts, callerOf(sess, s))]

AuthAnswer(op, s, username, status) ==
  [op |-> op, session |-> s, username |-> username, status |-> status]
NoAuthRequest == [op |-> "none", session |-> 0, username |-> "", status |-> 0]

UnchangedByAuth == UNCHANGED <<resetVars, memberVars, contentVars, babyVars>>

RegisterDone(r, status, body) ==
  rreq' = [rreq EXCEPT ![r].pc = "done", ![r].status = status, ![r].body = body]

\* POST /api/register arrives on session s
RegisterBegin(r, s, body) ==
  /\ rreq[r].pc = "idle"
  /\ rreq' = [rreq EXCEPT ![r] =
       [IdleRegister EXCEPT !.pc = "check", !.session = s,
                            !.username = body.username, !.email = body.email,
                            !.password = body.password]]
  /\ UNCHANGED <<accounts, nextUserId, sessions, last>>
  /\ UnchangedByAuth

\* const existingUser = await storage.getUserByUsername(req.body.username)
RegisterCheck(r) ==
  /\ rreq[r].pc = "check"
  /\ IF getUserByUsername(accounts, rreq[r].username) # {}
     THEN RegisterDone(r, 400, UsernameExistsMsg)
     ELSE rreq' = [rreq EXCEPT ![r].pc = "insert"]
  /\ UNCHANGED <<accounts, nextUserId, sessions, last>>
  /\ UnchangedByAuth

\* await hashPassword(...); await storage.createUser(...); req.login(user);
\* an insert that throws goes to next(err), which answers 500
RegisterInsert(r) ==
  /\ rreq[r].pc = "insert"
  /\ nextUserId <= MaxUserId
  /\ \E salt \in Salts :
       LET ins == createUser(accounts, nextUserId,
                    [username |-> rreq[r].username, email |-> rreq[r].email,
                     password |-> hashPassword(rreq[r].password, salt)])
       IN /\ accounts' = ins.accounts
          /\ nextUserId' = nextUserId + 1
          /\ IF ins.threw
             THEN /\ RegisterDone(r, 500, InternalErrorBody)
                  /\ UNCHANGED sessions
             ELSE /\ rreq' = [rreq EXCEPT ![r].pc = "done", ![r].status = 201,
                                          ![r].userId = nextUserId]
                  /\ sessions' = [sessions EXCEPT ![rreq[r].session] = nextUserId]
  /\ UNCHANGED last
  /\ UnchangedByAuth

Login(s, username, pw) ==
  LET out == loginRoute(accounts, sessions, s, username, pw)
  IN /\ sessions' = out.sessions
     /\ last' = AuthAnswer("login", s, username, out.status)
     /\ UNCHANGED <<accounts, nextUserId, rreq>>
     /\ UnchangedByAuth

Logout(s) ==
  LET out == logoutRoute(sessions, s)
  IN /\ sessions' = out.sessions
     /\ last' = AuthAnswer("logout", s, "", out.status)
     /\ UNCHANGED <<accounts, nextUserId, rreq>>
     /\ UnchangedByAuth

GetCurrentUser(s) ==
  LET out == getCurrentUserRoute(accounts, sessions, s)
  IN /\ last' = AuthAnswer("getUser", s, "", out.status)
     /\ UNCHANGED <<accounts, nextUserId, sessions, rreq>>
     /\ UnchangedByAuth

\* The account specification starts with the cohort, the posts, a comment and
\* an upvote that the other routes can produce, and with no account.
InitAuth ==
  /\ cohorts = ContentCohorts
  /\ memberships = ContentMemberships
  /\ nextCohortId = 2
  /\ nextMembershipId = 3
  /\ password = [u \in UserIds |-> hashPassword(Pw0, "s0")]
  /\ resetTokens = {}
  /\ nextTokenId = 1
  /\ now = 0
  /\ reset = [r \in ResetReqs |-> IdleReset]
  /\ last = NoAuthRequest
  /\ InitNoBabies
  /\ InitNoAccounts
  /\ posts = UpvotePosts
  /\ comments = { [id |-> 1, postId |-> 1, userId |-> 3, content |-> <<"h", "i">>] }
  /\ upvotes = { [id |-> 1, postId |-> 1, userId |-> 3] }
  /\ nextPostId = 3
  /\ nextCommentId = 2
  /\ nextUpvoteId = 2
  /\ upreq = [r \in UpvoteReqs |-> IdleUpvote]

RegisterStep(r) ==
  \/ RegisterCheck(r)
  \/ RegisterInsert(r)

NextAuth ==
  \/ \E r \in RegisterReqs, s \in SessionIds, body \in RegisterBodies :
       RegisterBegin(r, s, body)
  \/ \E r \in RegisterReqs : RegisterStep(r)
  \/ \E s \in SessionIds, username \in UsernameInputs, pw \in AccountPasswords :
       Login(s, username, pw)
  \/ \E s \in SessionIds : Logout(s)
  \/ \E s \in SessionIds : GetCurrentUser(s)

SpecAuth == InitAuth /\ [][NextAuth]_vars

\* ============================================== posts with comments and upvotes
\* The feed of one cohort: posts are deleted, comments and upvotes come and
\* go.  Upvote requests arrive one at a time on the first connection.
ThreadConnection == CHOOSE r \in UpvoteReqs : \A q \in UpvoteReqs : r <= q
ThreadContent == <<"h", "i">>

InitThread == InitUpvote

NextThread ==
  \/ \E caller \in Authors, postId \in PostIdInputs : DeletePost(caller, postId)
  \/ \E caller \in Authors, postId \in PostIdInputs :
       CreateComment(caller, postId, ThreadContent)
  \/ \E caller \in Authors, commentId \in CommentIdInputs :
       DeleteComment(caller, commentId)
  \/ \E caller \in Voters, postId \in UpvotePostIds :
       NoneInFlight /\ UpvoteBegin(ThreadConnection, caller, postId)
  \/ \E caller \in Voters, postId \in UpvotePostIds :
       NoneInFlight /\ RemoveBegin(ThreadConnection, caller, postId)
  \/ UpvoteStep(ThreadConnection)

SpecThread == InitThread /\ [][NextThread]_vars

\* ====================================================== client: CohortManagement
\* A request line is a method and a path; a path is its sequence of segments.
\* Express matches a registered pattern segment by segment, a ":name" segment
\* matching any one segment.
ParamSegments == {":id"}
Route(method, path, handler) == [method |-> method, path |-> path, handler |-> handler]

\* every app.get/post/put/delete of registerRoutes and setupAuth
RegisteredRoutes ==
  { Route("POST",   <<"api", "baby">>, "createBaby"),
    Route("GET",    <<"api", "baby">>, "getBaby"),
    Route("PUT",    <<"api", "baby", ":id">>, "updateBaby"),
    Route("GET",    <<"api", "cohorts", ":id">>, "getCohort"),
    Route("POST",   <<"api", "posts">>, "createPost"),
    Route("GET",    <<"api", "cohorts", ":id", "posts">>, "getCohortPosts"),
    Route("PUT",    <<"api", "posts", ":id">>, "updatePost"),
    Route("DELETE", <<"api", "posts", ":id">>, "deletePost"),
    Route("GET",    <<"api", "cohorts", ":id", "members">>, "getCohortMembers"),
    Route("GET",    <<"api", "cohorts", ":id", "moderators">>, "getCohortModerators"),
    Route("GET",    <<"api", "cohorts", ":id", "is-moderator">>, "isModerator"),
    Route("POST",   <<"api", "cohort-membership">>, "addMember"),
    Route("PUT",    <<"api", "cohort-membership", ":id">>, "updateMembershipRole"),
    Route("DELETE", <<"api", "cohort-membership", ":id">>, "removeMember"),
    Route("GET",    <<"api", "user", "by-email">>, "getUserByEmail"),
    Route("GET",    <<"api", "users">>, "getUsers"),
    Route("POST",   <<"api", "cohorts">>, "createCohort"),
    Route("GET",    <<"api", "cohorts">>, "getCohorts"),
    Route("GET",    <<"api", "user", "cohorts">>, "getUserCohorts"),
    Route("GET",    <<"api", "cohorts", ":id", "babies">>, "getCohortBabies"),
    Route("GET",    <<"api", "posts", ":id", "comments">>, "getComments"),
    Route("POST",   <<"api", "comments">>, "createComment"),
    Route("PUT",    <<"api", "comments", ":id">>, "updateComment"),
    Route("DELETE", <<"api", "comments", ":id">>, "deleteComment"),
    Route("GET",    <<"api", "posts", ":id", "upvotes", "count">>, "getUpvoteCount"),
    Route("GET",    <<"api", "posts", ":id", "upvotes", "user">>, "getUserUpvote"),
    Route("POST",   <<"api", "upvotes">>, "createUpvote"),
    Route("DELETE", <<"api", "posts", ":id", "upvotes">>, "removeUpvote"),
    Route("POST",   <<"api", "register">>, "register"),
    Route("POST",   <<"api", "login">>, "login"),
    Route("POST",   <<"api", "logout">>, "logout"),
    Route("GET",    <<"api", "user">>, "getCurrentUser"),
    Route("POST",   <<"api", "forgot-password">>, "forgotPassword"),
    Route("POST",   <<"api", "reset-password">>, "resetPassword") }

matches(pattern, path) ==
  /\ Len(pattern) = Len(path)
  /\ \A i \in 1 .. Len(pattern) : pattern[i] \in ParamSegments \/ pattern[i] = path[i]

\* the handlers registered for a request line
dispatch(method, path) ==
  { r.handler : r \in { k \in RegisteredRoutes : k.method = method /\ matches(k.path, path) } }

\* parseInt(req.params.id): the number a segment is the decimal form of, NaN
\* (no row has it) otherwise
NaN == 0 - 1
parseInt(segment) ==
  LET ns == { n \in 0 .. (MaxMembershipId + 1) : ToString(n) = segment }
  IN IF ns = {} THEN NaN ELSE CHOOSE n \in ns : TRUE

\* What answers a request that no registered route matches is decided outside
\* registerRoutes (the framework's 404, or the page fallback's 200); no
\* handler of the API runs.
NoRouteStatuses == {404, 200}

\* the three request lines of cohort-management.tsx
AddMemberRequest == [method |-> "POST", path |-> <<"api", "cohorts", "membership">>]
UpdateRoleRequest(membershipId) ==
  [method |-> "PUT", path |-> <<"api", "cohorts", "membership", ToString(membershipId)>>]
RemoveMemberRequest(membershipId) ==
  [method |-> "DELETE", path |-> <<"api", "cohorts", "membership", ToString(membershipId)>>]

\* the server's answer to a membership request line: the matched handler
\* runs, or none does
serve(request, caller, body, status) ==
  LET handlers == dispatch(request.method, request.path)
      idAt == parseInt(request.path[Len(request.path)])
  IN IF "addMember" \in handlers
     THEN addMemberRoute(cohorts, memberships, nextMembershipId, caller, body)
     ELSE IF "updateMembershipRole" \in handlers
     THEN [updateMembershipRoleRoute(memberships, caller, idAt, body.role)
             EXCEPT !.nextMembershipId = nextMembershipId]
     ELSE IF "removeMember" \in handlers
     THEN [removeMemberRoute(memberships, caller, idAt)
             EXCEPT !.nextMembershipId = nextMembershipId]
     ELSE Outcome(status, NoBody, cohorts, memberships, 0, nextMembershipId)

Served(op, caller, out) ==
  /\ out.nextMembershipId <= MaxMembershipId + 1
  /\ memberships' = out.memberships
  /\ nextMembershipId' = out.nextMembershipId
  /\ last' = Answer(op, caller, out)
  /\ UNCHANGED <<cohorts, nextCohortId>>
  /\ UNCHANGED <<resetVars, contentVars, babyVars, authVars>>

\* addMemberMutation: GET /api/user/by-email?email=..., then the POST with the
\* id found; apiRequest throws on a status that is not ok
ClientAddMember(caller, cohortId, email, status) ==
  LET found == getUserByEmailRoute(caller, email)
  IN IF found.status # 200
     THEN Served("clientAddMember", caller,
                 Outcome(found.status, NoBody, cohorts, memberships, 0, nextMembershipId))
     ELSE \E u \in found.rows :
            Served("clientAddMember", caller,
                   serve(AddMemberRequest, caller,
                         [cohortId |-> cohortId, userId |-> u.id, role |-> "member"],
                         status))

\* updateRoleMutation
ClientUpdateRole(caller, membershipId, role, status) ==
  LET out == serve(UpdateRoleRequest(membershipId), caller, [role |-> role], status)
  IN /\ membershipId \in MembershipIdInputs
     /\ Served("clientUpdateRole", caller, out)

\* removeMemberMutation
ClientRemoveMember(caller, membershipId, status) ==
  LET out == serve(RemoveMemberRequest(membershipId), caller, [role |-> ""], status)
  IN /\ membershipId \in MembershipIdInputs
     /\ Served("clientRemoveMember", caller, out)

InitClient == InitMember

NextClient ==
  \/ \E caller \in Callers, cohortId \in CohortIdInputs, email \in EmailQueryInputs,
        status \in NoRouteStatuses : ClientAddMember(caller, cohortId, email, status)
  \/ \E caller \in Callers, membershipId \in MembershipIdInputs, role \in MembershipRoles,
        status \in NoRouteStatuses : ClientUpdateRole(caller, membershipId, role, status)
  \/ \E caller \in Callers, membershipId \in MembershipIdInputs,
        status \in NoRouteStatuses : ClientRemoveMember(caller, membershipId, status)
  \/ \E caller \in Callers, nameOk \in BOOLEAN, membershipFails \in BOOLEAN :
       CreateCohort(caller, nameOk, membershipFails)

SpecClient == InitClient /\ [][NextClient]_vars

\* ------------------------------------------------------------------ claims

\* C1: once a POST /api/reset-password with token T has answered 200, a
\* request whose token lookup for T runs afterwards ends at that lookup with
\* 400 "Invalid or expired reset token" and writes no password.
C1_ConsumedTokenRejected ==
  [][\A r \in ResetReqs :
       ( /\ reset[r].pc = "lookup"
         /\ reset'[r] # reset[r]
         /\ \E q \in ResetReqs \ {r} :
              /\ reset[q].pc = "done"
              /\ reset[q].status = 200
              /\ reset[q].token = reset[r].token )
       => /\ reset'[r].pc = "done"
          /\ reset'[r].status = 400
          /\ reset'[r].body = InvalidOrExpiredTokenMsg
          /\ password' = password]_vars

\* a second request was refused for a token that had not expired
C1_Witness ==
  \E r, q \in ResetReqs :
    /\ r # q
    /\ reset[q].pc = "done" /\ reset[q].status = 200
    /\ reset[r].pc = "done" /\ reset[r].body = InvalidOrExpiredTokenMsg
    /\ reset[r].token = reset[q].token
    /\ \E row \in resetTokens :
         row.token = reset[r].token /\ row.expiresAt > now /\ row.used = 1

\* C2: of two concurrent POST /api/reset-password requests carrying the same
\* valid token, at most one answers 200.
C2_AtMostOneRedemption ==
  \A r, q \in ResetReqs :
    ( /\ r # q
      /\ reset[r].pc = "done" /\ reset[r].status = 200
      /\ reset[q].pc = "done" /\ reset[q].status = 200 )
    => reset[r].token # reset[q].token

\* ------------------------------------------------- claims on the cohort registry
NonAdmins == { u \in UserIds : u # AdminId }
ModeratorRow(ms, u, c) ==
  \E m \in ms : m.userId = u /\ m.cohortId = c /\ m.role = "moderator"
RowExists(ms, id) == \E m \in ms : m.id = id
\* the caller is a moderator of no cohort that membership id belongs to
NoModeratorOfTarget(ms, u, id) ==
  \A m \in ms : m.id = id => ~ModeratorRow(ms, u, m.cohortId)

C4_CreateCohortAtomic ==
  [][\A c \in cohorts' \ cohorts :
       \E m \in memberships' \ memberships :
         m.cohortId = c.id /\ m.userId = c.creatorId /\ m.role = "moderator"]_vars

\* C5: a createCohort answered 201 added exactly one membership row, the only
\* row of the new cohort: (creator, new cohort, moderator); the creator then
\* is a moderator of the new cohort.
C5_CreatorIsTheOneModerator ==
  \A u \in UserIds, fails \in BOOLEAN :
    LET out == createCohortRoute(cohorts, memberships, nextCohortId, nextMembershipId,
                                 u, TRUE, fails)
        added == out.memberships \ memberships
    IN out.status = 201 =>
         /\ memberships \subseteq out.memberships
         /\ Cardinality(added) = 1
         /\ \A m \in added :
              m.userId = u /\ m.cohortId = nextCohortId /\ m.role = "moderator"
         /\ { m \in out.memberships : m.cohortId = nextCohortId } = added
         /\ \E c \in out.cohorts : c.id = nextCohortId /\ c.creatorId = u
         /\ ModeratorRow(out.memberships, u, nextCohortId)

\* a cohort was created and its creator holds the newest membership row
C5_Witness ==
  /\ last.op = "createCohort" /\ last.status = 201
  /\ \E c \in cohorts, m \in memberships :
       /\ c.id = nextCohortId - 1 /\ m.id = nextMembershipId - 1
       /\ c.creatorId = last.caller
       /\ m.cohortId = c.id /\ m.userId = last.caller /\ m.role = "moderator"

\* C6: an admin is never answered 403 by the three membership routes, in any
\* cohort: a valid addMember inserts the row, an updateMembershipRole or
\* removeMember of an existing row is carried out.
C6_AdminBypassesCohortChecks ==
  /\ \A c \in CohortIdInputs, t \in UserIdInputs, role \in RoleInputs :
       LET body == [cohortId |-> c, userId |-> t, role |-> role]
           out == addMemberRoute(cohorts, memberships, nextMembershipId, AdminId, body)
       IN /\ out.status # 403
          /\ ( /\ \E k \in cohorts : k.id = c
               /\ t \in UserIds
               /\ role \in MembershipRoles ) =>
                 /\ out.status = 201
                 /\ \E m \in out.memberships \ memberships :
                      m.cohortId = c /\ m.userId = t /\ m.role = role
  /\ \A id \in MembershipIdInputs, role \in RoleInputs :
       LET out == updateMembershipRoleRoute(memberships, AdminId, id, role)
       IN /\ out.status # 403
          /\ (RowExists(memberships, id) /\ role \in MembershipRoles) =>
               /\ out.status = 200
               /\ \A m \in out.memberships : m.id = id => m.role = role
  /\ \A id \in MembershipIdInputs :
       LET out == removeMemberRoute(memberships, AdminId, id)
       IN /\ out.status # 403
          /\ RowExists(memberships, id) =>
               (out.status = 200 /\ ~RowExists(out.memberships, id))

\* the admin added a member to a cohort in which the admin has no row
C6_Witness ==
  /\ last.op = "addMember" /\ last.caller = AdminId /\ last.status = 201
  /\ \E m \in memberships :
       /\ m.id = nextMembershipId - 1
       /\ ~\E k \in memberships : k.cohortId = m.cohortId /\ k.userId = AdminId

NonAuthorPostCase(u, p, content) ==
  LET upd == updatePost(posts, p.id, content, u)
      del == deletePost(posts, comments, upvotes, p.id, u)
      put == updatePostRoute(posts, u, p.id, content)
      rem == deletePostRoute(posts, comments, upvotes, u, p.id)
  IN /\ upd.result = {} /\ upd.posts = posts
     /\ ~del.result /\ ~del.threw /\ del.posts = posts
     /\ put.posts = posts /\ rem.posts = posts
     /\ rem.status = 404
     /\ ~isBlank(content) => put.status = 404

NonAuthorCommentCase(u, c, content) ==
  LET upd == updateComment(comments, c.id, content, u)
      del == deleteComment(comments, c.id, u)
      put == updateCommentRoute(comments, u, c.id, content)
      rem == deleteCommentRoute(comments, u, c.id)
  IN /\ upd.result = {} /\ upd.comments = comments
     /\ ~del.result /\ del.comments = comments
     /\ put.comments = comments /\ rem.comments = comments
     /\ rem.status = 404
     /\ ~isBlank(content) => put.status = 404

AuthorUpdateCase(p, content) ==
  LET put == updatePostRoute(posts, p.userId, p.id, content)
  IN /\ put.status = 200
     /\ \E q \in put.posts : q.id = p.id /\ q.content = content
     /\ \A q \in put.posts : q.id # p.id => q \in posts

AuthorCommentUpdateCase(c, content) ==
  LET put == updateCommentRoute(comments, c.userId, c.id, content)
  IN /\ put.status = 200
     /\ \E d \in put.comments : d.id = c.id /\ d.content = content
     /\ \A d \in put.comments : d.id # c.id => d \in comments

Visible(out) == <<out.status, out.body>>

\* C8: for a caller who does not own a stored post, PUT and DELETE on its id
\* answer with the same status and body as they do in the run whose only
\* difference is that the post was never stored.
C8_ExistenceNotRevealed ==
  \A p \in posts, u \in UserIds, content \in Contents :
    u # p.userId =>
    LET without == posts \ {p}
        cmsWithout == { c \in comments : c.postId # p.id }
        upsWithout == { v \in upvotes : v.postId # p.id }
    IN /\ Visible(updatePostRoute(posts, u, p.id, content))
            = Visible(updatePostRoute(without, u, p.id, content))
       /\ Visible(deletePostRoute(posts, comments, upvotes, u, p.id))
            = Visible(deletePostRoute(without, cmsWithout, upsWithout, u, p.id))

\* A delete was answered 404 to a caller who owns none of the stored posts, with
\* a stored post and a free post id both in reach of the request.
C8_Witness ==
  /\ last.op = "deletePost" /\ last.status = 404
  /\ last.body = PostNotDeletableMsg
  /\ posts # {} /\ \A p \in posts : p.userId # last.caller
  /\ \E id \in PostIdInputs : getPost(posts, id) = {}

UpvoteCheckStep(r) ==
  (upreq[r].pc = "check" /\ upreq'[r].pc # "check") =>
    IF pairRows(upvotes, upreq[r].postId, upreq[r].caller) # {}
    THEN /\ upreq'[r].pc = "done" /\ upreq'[r].status = 409
         /\ upreq'[r].body = AlreadyUpvotedMsg
         /\ upvotes' = upvotes
    ELSE upreq'[r].pc = "insert"

UpvoteInsertStep(r) ==
  (upreq[r].pc = "insert" /\ upreq'[r].pc = "done"
     /\ getPost(posts, upreq[r].postId) # {}) =>
    /\ upreq'[r].status = 201
    /\ Cardinality(pairRows(upvotes', upreq[r].postId, upreq[r].caller)) = 1

RemoveCheckStep(r) ==
  (upreq[r].pc = "rcheck" /\ upreq'[r].pc # "rcheck") =>
    IF pairRows(upvotes, upreq[r].postId, upreq[r].caller) = {}
    THEN /\ upreq'[r].pc = "done" /\ upreq'[r].status = 404
         /\ upreq'[r].body = NotUpvotedMsg
         /\ upvotes' = upvotes
    ELSE upreq'[r].pc = "delete"

RemoveDeleteStep(r) ==
  (upreq[r].pc = "delete" /\ upreq'[r].pc = "done") =>
    /\ upreq'[r].status = 200
    /\ pairRows(upvotes', upreq[r].postId, upreq[r].caller) = {}
    /\ getUpvoteCount(upvotes', upreq[r].postId)
         = getUpvoteCount(upvotes, upreq[r].postId) - 1
    /\ \A v \in upvotes \ upvotes' :
         v.postId = upreq[r].postId /\ v.userId = upreq[r].caller

AtMostOneRowPerPair ==
  \A v \in upvotes : Cardinality(pairRows(upvotes, v.postId, v.userId)) = 1

\* C9: when upvote requests run one after the other, an upvote for a pair
\* without a row answers 201 and leaves exactly one row for the pair, an upvote
\* for a pair with a row answers 409 and adds nothing, so no pair ever has two
\* rows; removeUpvote for a pair with a row answers 200, leaves no row for the
\* pair and lowers the post's count by that one row, and removeUpvote for a pair
\* without a row answers 404 and removes nothing.
C9_SequentialUpvotes ==
  /\ []AtMostOneRowPerPair
  /\ [][\A r \in UpvoteReqs :
          /\ UpvoteCheckStep(r) /\ UpvoteInsertStep(r)
          /\ RemoveCheckStep(r) /\ RemoveDeleteStep(r)]_vars

\* The second upvote of a user for a post was answered 409 and the pair has its
\* one row, the first upvote having been answered 201 on the other connection.
C9_Witness ==
  \E r, q \in UpvoteReqs :
    /\ upreq[r].pc = "done" /\ upreq[r].op = "upvote" /\ upreq[r].status = 409
    /\ upreq[q].pc = "done" /\ upreq[q].op = "upvote" /\ upreq[q].status = 201
    /\ upreq[q].postId = upreq[r].postId /\ upreq[q].caller = upreq[r].caller
    /\ Cardinality(pairRows(upvotes, upreq[r].postId, upreq[r].caller)) = 1

\* C10: the insert of an upvote is never refused for a row that repeats a
\* (postId, userId) pair: whenever the post exists the request that reached the
\* insert answers 201 and the pair has one more row than before, so two requests
\* that both passed the check before either inserted leave two rows.
C10_InsertNeverRefusesDuplicate ==
  [][\A r \in UpvoteReqs :
       (upreq[r].pc = "insert" /\ upreq'[r].pc = "done"
          /\ getPost(posts, upreq[r].postId) # {}) =>
         /\ upreq'[r].status = 201
         /\ Cardinality(pairRows(upvotes', upreq[r].postId, upreq[r].caller))
              = Cardinality(pairRows(upvotes, upreq[r].postId, upreq[r].caller)) + 1]_vars

\* Two requests of one user for one post were both answered 201 and the pair
\* has two rows.
C10_Witness ==
  \E r, q \in UpvoteReqs :
    /\ r # q
    /\ upreq[r].pc = "done" /\ upreq[r].op = "upvote" /\ upreq[r].status = 201
    /\ upreq[q].pc = "done" /\ upreq[q].op = "upvote" /\ upreq[q].status = 201
    /\ upreq[q].postId = upreq[r].postId /\ upreq[q].caller = upreq[r].caller
    /\ Cardinality(pairRows(upvotes, upreq[r].postId, upreq[r].caller)) = 2

SameRange(c1, c2) == c1.startDate = c2.startDate /\ c1.endDate = c2.endDate

C12_RangeOfBirthDate ==
  \A b \in babies :
    \E c \in cohortRanges :
      /\ c.id = b.cohortId
      /\ c.startDate = startOfMonth(b.birthDate)
      /\ c.endDate = endOfMonth(addMonths(startOfMonth(b.birthDate), 1))

\* C13: the insert of getOrCreateCohort is never refused for a range that a
\* cohort row already carries: the request that reached the insert goes on with
\* the new row's id and the range has one more row than before, so two requests
\* that both looked up before either inserted leave two rows for the range.
C13_CohortInsertNeverRefused ==
  [][\A r \in BabyReqs :
       (breq[r].pc = "insertCohort" /\ breq'[r].pc # "insertCohort") =>
         /\ breq'[r].pc = "insertBaby"
         /\ breq'[r].cohortId = nextCohortId
         /\ Cardinality(findCohortByRange(cohortRanges', breq[r].start, breq[r].end))
              = Cardinality(findCohortByRange(cohortRanges, breq[r].start, breq[r].end)) + 1]_vars

\* Two cohort rows with different ids carry the same range, created by two
\* requests in flight together.
C13_Witness ==
  /\ \E c1, c2 \in cohortRanges : c1.id # c2.id /\ SameRange(c1, c2)
  /\ \E r, q \in BabyReqs :
       /\ r # q
       /\ breq[r].start = breq[q].start /\ breq[r].end = breq[q].end
       /\ breq[r].cohortId # breq[q].cohortId
       /\ breq[r].pc \in {"insertBaby", "done"} /\ breq[q].pc \in {"insertBaby", "done"}
       /\ breq[r].cohortId # 0 /\ breq[q].cohortId # 0

\* what POST /api/forgot-password answers to a well-formed email of no account
UnknownEmailAnswer ==
  [op |-> "forgotPassword", status |-> 200, body |-> ResetSentMsg, token |-> {}]

\* C14: POST /api/forgot-password answers a well-formed email of an account
\* with the same status and body as a well-formed email of no account.
C14_SameAnswerForEveryEmail ==
  (last.op = "forgotPassword" /\ last.status = 200) => last = UnknownEmailAnswer

TokenRows(token) == { row \in resetTokens : row.token = token }

ResetLookupStep(r) ==
  (reset[r].pc = "lookup" /\ reset'[r].pc # "lookup") =>
    /\ password' = password /\ resetTokens' = resetTokens
    /\ (\A row \in TokenRows(reset[r].token) : row.expiresAt <= now) =>
         /\ reset'[r].pc = "done" /\ reset'[r].status = 400
         /\ reset'[r].body = InvalidOrExpiredTokenMsg
    /\ \A row \in TokenRows(reset[r].token) :
         (row.used = 0 /\ row.expiresAt > now) =>
           reset'[r].pc = "update" /\ reset'[r].resetToken = {row}

ResetUpdateStep(r) ==
  (reset[r].pc = "update" /\ reset'[r].pc # "update") =>
    /\ resetTokens' = resetTokens
    /\ \E row \in reset[r].resetToken :
         /\ row.token = reset[r].token
         /\ password'[row.userId].hash[1] = reset[r].password
         /\ \A u \in UserIds \ {row.userId} : password'[u] = password[u]

ResetMarkStep(r) ==
  (reset[r].pc = "mark" /\ reset'[r].pc # "mark") =>
    /\ password' = password
    /\ reset'[r].pc = "done" /\ reset'[r].status = 200
    /\ \E row \in reset[r].resetToken :
         /\ row.token = reset[r].token
         /\ \A old \in resetTokens :
              IF old.id = row.id
              THEN [old EXCEPT !.used = 1] \in resetTokens'
              ELSE old \in resetTokens'
         /\ Cardinality(resetTokens') = Cardinality(resetTokens)

TokenIssueStep ==
  \A row \in resetTokens' :
    (\A old \in resetTokens : old.id # row.id) =>
      row.used = 0 /\ row.expiresAt = now + 1

C15_SameAnswerForBadLogins ==
  \A s \in SessionIds, a \in accounts, wrong \in AccountPasswords,
     n \in UsernameInputs, pw \in AccountPasswords :
    (a.password.hash[1] # wrong /\ (\A b \in accounts : b.username # n)) =>
      LET known == loginRoute(accounts, sessions, s, a.username, wrong)
          unknown == loginRoute(accounts, sessions, s, n, pw)
      IN /\ known.status = 401 /\ known.body = InvalidCredentialsMsg
         /\ known.sessions = sessions
         /\ unknown = known

\* A login with the username of an account was answered 401 while a username
\* of no account is in reach, and no session holds a user.
C15_Witness ==
  /\ last.op = "login" /\ last.status = 401
  /\ \E a \in accounts : a.username = last.username
  /\ \E n \in UsernameInputs : \A b \in accounts : b.username # n
  /\ \A s \in SessionIds : sessions[s] = Anon

UniqueAccounts ==
  \A a, b \in accounts :
    a # b => a.id # b.id /\ a.username # b.username /\ a.email # b.email

RegisterCheckStep(r) ==
  (rreq[r].pc = "check" /\ rreq'[r].pc # "check") =>
    /\ accounts' = accounts
    /\ IF \E a \in accounts : a.username = rreq[r].username
       THEN /\ rreq'[r].pc = "done" /\ rreq'[r].status = 400
            /\ rreq'[r].body = UsernameExistsMsg
       ELSE rreq'[r].pc = "insert"

RegisterInsertStep(r) ==
  (rreq[r].pc = "insert" /\ rreq'[r].pc = "done") =>
    IF rreq'[r].status = 201
    THEN \E a \in accounts' :
           /\ a.username = rreq[r].username /\ a.email = rreq[r].email
           /\ accounts' = accounts \cup {a} /\ a \notin accounts
    ELSE accounts' = accounts

\* C17: in every state reached by register requests, interleaved in any way,
\* no two users rows share a username or an email; a register request that
\* finds its username taken answers 400 "Username already exists", and every
\* register request that is not answered 201 leaves the users table as it was.
C17_UniqueUsernameAndEmail ==
  /\ []UniqueAccounts
  /\ [][\A r \in RegisterReqs : RegisterCheckStep(r) /\ RegisterInsertStep(r)]_vars

\* A register request was answered 400 for the username of a stored account.
C17_Witness ==
  \E r \in RegisterReqs :
    /\ rreq[r].pc = "done" /\ rreq[r].status = 400
    /\ rreq[r].body = UsernameExistsMsg
    /\ \E a \in accounts : a.username = rreq[r].username /\ a.email # rreq[r].email

\* C18: after a register request was answered 201 with user id i, a login with
\* the registered username and password on any session answers 200 and leaves
\* that session holding user i.
C18_RegisterThenLogin ==
  \A r \in RegisterReqs :
    (rreq[r].pc = "done" /\ rreq[r].status = 201) =>
      /\ \E a \in accounts : a.id = rreq[r].userId /\ a.username = rreq[r].username
      /\ \A s \in SessionIds :
           LET out == loginRoute(accounts, sessions, s, rreq[r].username,
                                 rreq[r].password)
           IN out.status = 200 /\ out.sessions[s] = rreq[r].userId

\* A login on another session than the one that registered was answered 200
\* and that session holds the registered user.
C18_Witness ==
  /\ last.op = "login" /\ last.status = 200
  /\ \E r \in RegisterReqs :
       /\ rreq[r].pc = "done" /\ rreq[r].status = 201
       /\ rreq[r].username = last.username
       /\ rreq[r].session # last.session
       /\ sessions[last.session] = rreq[r].userId

AnonMembershipRoutes ==
  /\ \A cohortId \in CohortIdInputs, userId \in UserIdInputs, role \in RoleInputs :
       LET out == addMemberRoute(cohorts, memberships, nextMembershipId, Anon,
                     [cohortId |-> cohortId, userId |-> userId, role |-> role])
       IN /\ out.status = 401 /\ out.memberships = memberships
          /\ out.nextMembershipId = nextMembershipId
  /\ \A id \in MembershipIdInputs, role \in RoleInputs :
       LET out == updateMembershipRoleRoute(memberships, Anon, id, role)
       IN out.status = 401 /\ out.memberships = memberships
  /\ \A id \in MembershipIdInputs :
       LET out == removeMemberRoute(memberships, Anon, id)
       IN out.status = 401 /\ out.memberships = memberships
  /\ \A nameOk \in BOOLEAN, fails \in BOOLEAN :
       LET out == createCohortRoute(cohorts, memberships, nextCohortId,
                                    nextMembershipId, Anon, nameOk, fails)
       IN /\ out.status = 401 /\ out.cohorts = cohorts
          /\ out.memberships = memberships /\ out.nextCohortId = nextCohortId

AnonContentRoutes ==
  /\ \A cohortId \in CohortIdInputs, content \in Contents :
       LET out == createPostRoute(cohorts, posts, nextPostId, Anon,
                                  [cohortId |-> cohortId, content |-> content])
       IN out.status = 401 /\ out.posts = posts /\ out.nextPostId = nextPostId
  /\ \A postId \in PostIdInputs, content \in Contents :
       LET out == updatePostRoute(posts, Anon, postId, content)
       IN out.status = 401 /\ out.posts = posts
  /\ \A postId \in PostIdInputs :
       LET out == deletePostRoute(posts, comments, upvotes, Anon, postId)
       IN out.status = 401 /\ out.posts = posts
  /\ \A postId \in PostIdInputs, content \in Contents :
       LET out == createCommentRoute(posts, comments, nextCommentId, Anon,
                                     [postId |-> postId, content |-> content])
       IN /\ out.status = 401 /\ out.comments = comments
          /\ out.nextCommentId = nextCommentId
  /\ \A commentId \in CommentIdInputs, content \in Contents :
       LET out == updateCommentRoute(comments, Anon, commentId, content)
       IN out.status = 401 /\ out.comments = comments
  /\ \A commentId \in CommentIdInputs :
       LET out == deleteCommentRoute(comments, Anon, commentId)
       IN out.status = 401 /\ out.comments = comments
  /\ \A postId \in UpvotePostIds :
       /\ upvoteArrives(Anon, postId).pc = "done"
       /\ upvoteArrives(Anon, postId).status = 401
       /\ removeArrives(Anon, postId).pc = "done"
       /\ removeArrives(Anon, postId).status = 401

AnonBabyRoutes ==
  /\ \A birthDate \in BirthDateInputs :
       /\ babyArrives(Anon, birthDate).pc = "done"
       /\ babyArrives(Anon, birthDate).status = 401
  /\ \A first \in { {} } \cup { {b} : b \in babies } :
       /\ getBabyRoute(Anon, first) = Read(401, {})
       /\ \A id \in 1 .. MaxBabyId, birthDate \in BirthDateInputs \cup {AbsentDate},
             name \in {AbsentField, "n1"} :
            LET out == updateBabyRoute(babies, Anon, id,
                          [name |-> name, birthDate |-> birthDate,
                           photoUrl |-> AbsentField], first)
            IN out.status = 401 /\ out.babies = babies

AnonReadRoutes ==
  /\ \A cohortId \in CohortIdInputs :
       /\ getCohortRoute(cohorts, Anon, cohortId) = Read(401, {})
       /\ getCohortPostsRoute(posts, password, Anon, cohortId) = Read(401, {})
       /\ getCohortMembersRoute(memberships, password, Anon, cohortId) = Read(401, {})
       /\ getCohortModeratorsRoute(memberships, password, Anon, cohortId) = Read(401, {})
       /\ isModeratorRoute(memberships, Anon, cohortId) = Read(401, {})
       /\ getCohortBabiesRoute(memberships, password, babies, Anon, cohortId)
            = Read(401, {})
  /\ \A email \in EmailQueryInputs : getUserByEmailRoute(Anon, email) = Read(401, {})
  /\ getUsersRoute(Anon) = Read(401, {})
  /\ getCohortsRoute(cohorts, Anon) = Read(401, {})
  /\ getUserCohortsRoute(cohorts, memberships, Anon) = Read(401, {})
  /\ \A postId \in UpvotePostIds :
       /\ getCommentsRoute(comments, Anon, postId) = Read(401, {})
       /\ getUpvoteCountRoute(upvotes, Anon, postId) = Read(401, {})
       /\ getUserUpvoteRoute(upvotes, Anon, postId) = Read(401, {})

SessionIsAnon(s) ==
  /\ callerOf(sessions, s) = Anon
  /\ getCurrentUserRoute(accounts, sessions, s).status = 401

SessionStep(s) ==
  /\ (last' # last /\ last'.op = "logout" /\ last'.session = s) =>
       callerOf(sessions', s) = Anon
  /\ (callerOf(sessions, s) = Anon /\ callerOf(sessions', s) # Anon) =>
       \/ last' # last /\ last'.op = "login" /\ last'.session = s
            /\ last'.status = 200
       \/ \E r \in RegisterReqs :
            /\ rreq[r].pc = "insert" /\ rreq'[r].status = 201
            /\ rreq[r].session = s

\* C19: every route of registerRoutes answers a request without an
\* authenticated session with 401 and an empty body and leaves every table and
\* serial as it was; a logout leaves its session without a user, and a session
\* without a user gets one only by a login answered 200 or by the req.login of
\* a register answered 201.
C19_UnauthenticatedIsRefused ==
  /\ [](AnonMembershipRoutes /\ AnonContentRoutes /\ AnonBabyRoutes /\ AnonReadRoutes)
  /\ [](\A s \in SessionIds : callerOf(sessions, s) = Anon => SessionIsAnon(s))
  /\ [][\A s \in SessionIds : SessionStep(s)]_vars

\* The session that a register answered 201 had logged in was logged out and
\* its GET /api/user was then answered 401.
C19_Witness ==
  /\ last.op = "getUser" /\ last.status = 401
  /\ sessions[last.session] = Anon
  /\ \E r \in RegisterReqs :
       /\ rreq[r].pc = "done" /\ rreq[r].status = 201
       /\ rreq[r].session = last.session

\* C20: when removeMember is answered with success for a membership row of
\* user C in cohort X, the members list of X, as GET /api/cohorts/X/members
\* returns it right after, has no row of C.
C20_RemovedMemberNotListed ==
  [][(last' # last /\ last'.op = "removeMember" /\ last'.status = 200) =>
       \A m \in memberships \ memberships' :
         \A row \in getCohortMembersRoute(memberships', password', AdminId,
                                          m.cohortId).rows :
           row.id # m.userId]_vars

\* ---------------------------------------------- claims on the management right
\* the rows of cohort c
RowsOf(ms, c) == { m \in ms : m.cohortId = c }

\* what the guard of the three membership routes decides for user u in cohort
\* c, on every request that reaches the guard: addMember with any body,
\* updateMembershipRole with a role of the enum and removeMember on a row of c
GuardRefuses(cs, ms, nextM, u, c) ==
  /\ \A t \in UserIdInputs, role \in RoleInputs :
       addMemberRoute(cs, ms, nextM, u,
                      [cohortId |-> c, userId |-> t, role |-> role]).status = 403
  /\ \A m \in RowsOf(ms, c) :
       /\ \A role \in MembershipRoles :
            LET out == updateMembershipRoleRoute(ms, u, m.id, role)
            IN out.status = 403 /\ out.memberships = ms
       /\ LET out == removeMemberRoute(ms, u, m.id)
          IN out.status = 403 /\ out.memberships = ms

GuardAdmits(cs, ms, nextM, u, c) ==
  /\ \A t \in UserIdInputs, role \in RoleInputs :
       addMemberRoute(cs, ms, nextM, u,
                      [cohortId |-> c, userId |-> t, role |-> role]).status # 403
  /\ \A m \in RowsOf(ms, c) :
       /\ \A role \in MembershipRoles :
            updateMembershipRoleRoute(ms, u, m.id, role).status = 200
       /\ removeMemberRoute(ms, u, m.id).status = 200

\* a non-admin user's right in a cohort follows the moderator rows alone,
\* whoever created the cohort
RightIsModeratorRow ==
  \A u \in NonAdmins, c \in CohortIdInputs :
    IF ModeratorRow(memberships, u, c)
    THEN GuardAdmits(cohorts, memberships, nextMembershipId, u, c)
    ELSE GuardRefuses(cohorts, memberships, nextMembershipId, u, c)

\* a step that turns a member row into a moderator row authorizes its user
PromotionGrants ==
  \A m \in memberships : \A k \in memberships' :
    (k.id = m.id /\ m.role = "member" /\ k.role = "moderator") =>
      GuardAdmits(cohorts', memberships', nextMembershipId', k.userId, k.cohortId)

\* a step after which a user holds no moderator row of a cohort any more
\* (the last such row was deleted or set to member) leaves the user refused
LosesLastModeratorRow(u, c) ==
  ModeratorRow(memberships, u, c) /\ ~ModeratorRow(memberships', u, c)

\* C21 (as amended): for a non-admin user, creator of the cohort or not, the
\* three membership routes admit the user in a cohort exactly while a
\* (user, cohort, moderator) row exists: a promotion to moderator authorizes
\* the user's next addMember, and once no moderator row of the user is left
\* in the cohort the user's addMember, updateMembershipRole (with a role of
\* the enum) and removeMember on rows of the cohort are answered 403.
C21_RightFollowsModeratorRow ==
  /\ []RightIsModeratorRow
  /\ [][ /\ PromotionGrants
         /\ \A u \in NonAdmins, c \in CohortIdInputs :
              LosesLastModeratorRow(u, c) =>
                GuardRefuses(cohorts', memberships', nextMembershipId', u, c) ]_vars

\* the creator of a cohort was demoted or removed and holds no moderator row
\* of it, while another user of the cohort was promoted to moderator
C21_Witness ==
  /\ last.op \in {"updateMembershipRole", "removeMember"} /\ last.status = 200
  /\ \E c \in cohorts :
       /\ c.creatorId \in NonAdmins
       /\ ~ModeratorRow(memberships, c.creatorId, c.id)
       /\ \E m \in memberships :
            m.cohortId = c.id /\ m.userId # c.creatorId /\ m.role = "moderator"

\* C21 as stated: a step that deletes a moderator row of a user, or sets it to
\* member, leaves every addMember, updateMembershipRole and removeMember of
\* that user on the cohort answered 403.
C21_RemovedRowAlwaysForbidden ==
  [][ \A m \in memberships :
        ( /\ m.role = "moderator" /\ m.userId \in NonAdmins
          /\ \A k \in memberships' : k.id = m.id => k.role = "member" ) =>
            /\ \A t \in UserIdInputs, role \in RoleInputs :
                 addMemberRoute(cohorts', memberships', nextMembershipId', m.userId,
                                [cohortId |-> m.cohortId, userId |-> t,
                                 role |-> role]).status = 403
            /\ \A k \in RowsOf(memberships', m.cohortId) :
                 /\ \A role \in RoleInputs :
                      updateMembershipRoleRoute(memberships', m.userId, k.id,
                                                role).status = 403
                 /\ removeMemberRoute(memberships', m.userId, k.id).status = 403 ]_vars

\* C22: every membership row has role member or moderator; an authenticated
\* updateMembershipRole with any other role value is answered 400 "Invalid
\* role", an authenticated addMember with a role outside the enum is refused
\* (403 by the guard, else 400 by the schema), and both leave the membership
\* table as it was.
C22_RolesStayInEnum ==
  /\ \A m \in memberships : m.role \in MembershipRoles
  /\ \A u \in UserIds, id \in MembershipIdInputs, role \in RoleInputs \ MembershipRoles :
       LET out == updateMembershipRoleRoute(memberships, u, id, role)
       IN /\ out.status = 400 /\ out.body = InvalidRoleMsg
          /\ out.memberships = memberships
  /\ \A u \in UserIds, c \in CohortIdInputs, t \in UserIdInputs :
       LET out == addMemberRoute(cohorts, memberships, nextMembershipId, u,
                                 [cohortId |-> c, userId |-> t, role |-> "owner"])
       IN /\ out.status \in {400, 403}
          /\ out.memberships = memberships

\* a caller with the right to manage an existing row sent a role outside the
\* enum and was answered 400
C22_Witness ==
  /\ last.op = "updateMembershipRole" /\ last.status = 400
  /\ last.body = InvalidRoleMsg
  /\ \E m \in memberships : mayManage(memberships, last.caller, m.cohortId)

\* C23 (as amended): every membership row references an existing user and an
\* existing cohort; addMember by a caller with the right to manage the cohort
\* and a userId that matches no user is answered 400 "Invalid cohort
\* membership data" (the insert is refused by the foreign key and the catch
\* block answers) and adds no row.
C23_UnknownUserAddsNoRow ==
  /\ \A m \in memberships :
       getUser(m.userId) # {} /\ getCohort(cohorts, m.cohortId) # {}
  /\ \A u \in UserIds, c \in CohortIdInputs, role \in RoleInputs :
       mayManage(memberships, u, c) =>
         LET out == addMemberRoute(cohorts, memberships, nextMembershipId, u,
                                   [cohortId |-> c, userId |-> NoUserId, role |-> role])
         IN /\ out.status = 400 /\ out.body = InvalidMembershipMsg
            /\ out.memberships = memberships

\* a caller with the right to manage an existing cohort was answered 400 by
\* addMember
C23_Witness ==
  /\ last.op = "addMember" /\ last.status = 400
  /\ last.body = InvalidMembershipMsg
  /\ \E c \in cohorts : mayManage(memberships, last.caller, c.id)

\* C23 as stated: the unknown userId is answered UserNotFound (404, as GET
\* /api/user/by-email answers an unknown email).
C23_UnknownUserIsUserNotFound ==
  \A u \in UserIds, c \in CohortIdInputs, role \in RoleInputs :
    mayManage(memberships, u, c) =>
      LET out == addMemberRoute(cohorts, memberships, nextMembershipId, u,
                                [cohortId |-> c, userId |-> NoUserId, role |-> role])
      IN /\ out.status = 404
         /\ out.memberships = memberships

\* --------------------------------------------- claims on the last moderator row
ModeratorRowsOf(ms, c) == { m \in RowsOf(ms, c) : m.role = "moderator" }

\* cohort c has rows but no moderator row: what a non-admin user is answered
RefusedInOrphan(cs, ms, nextM, u, c) ==
  /\ \A t \in UserIdInputs, role \in RoleInputs :
       LET out == addMemberRoute(cs, ms, nextM, u,
                                 [cohortId |-> c, userId |-> t, role |-> role])
       IN out.status = 403 /\ out.memberships = ms
  /\ \A m \in RowsOf(ms, c) :
       /\ \A role \in RoleInputs :
            LET out == updateMembershipRoleRoute(ms, u, m.id, role)
            IN /\ out.status = IF role \in MembershipRoles THEN 403 ELSE 400
               /\ out.memberships = ms
       /\ LET out == removeMemberRoute(ms, u, m.id)
          IN out.status = 403 /\ out.memberships = ms

\* the only moderator row of a cohort can be deleted or set to member by
\* whoever may manage the cohort
LastModeratorNotProtected ==
  \A m \in memberships :
    ModeratorRowsOf(memberships, m.cohortId) = {m} =>
      \A u \in UserIds :
        mayManage(memberships, u, m.cohortId) =>
          /\ LET out == removeMemberRoute(memberships, u, m.id)
             IN out.status = 200 /\ out.memberships = memberships \ {m}
          /\ LET out == updateMembershipRoleRoute(memberships, u, m.id, "member")
             IN /\ out.status = 200
                /\ ModeratorRowsOf(out.memberships, m.cohortId) = {}
                /\ \E k \in out.memberships : k.id = m.id /\ k.role = "member"

OrphanCohortIds == { c.id : c \in { k \in cohorts : ModeratorRowsOf(memberships, k.id) = {} } }

\* C29 (as amended): removeMember and updateMembershipRole succeed on the only
\* moderator row of a cohort; once a cohort has no moderator row, a non-admin
\* user's addMember and removeMember on it are answered 403 and
\* updateMembershipRole 403 (400 for a role outside the enum), all without
\* change, and a step that changes the rows of that cohort is a request of
\* the admin.
C29_OrphanCohortOnlyAdmin ==
  /\ [](LastModeratorNotProtected
        /\ \A c \in OrphanCohortIds, u \in NonAdmins :
             RefusedInOrphan(cohorts, memberships, nextMembershipId, u, c))
  /\ [][\A c \in OrphanCohortIds :
          RowsOf(memberships', c) # RowsOf(memberships, c) =>
            last'.caller = AdminId]_vars

\* the only moderator of the only cohort removed or demoted the last
\* moderator row and the cohort is left without one
C29_Witness ==
  /\ last.op \in {"removeMember", "updateMembershipRole"} /\ last.status = 200
  /\ last.caller \in NonAdmins
  /\ Cardinality(cohorts) = 1
  /\ \A c \in cohorts : c.id \in OrphanCohortIds

\* C29 as stated: in a cohort without a moderator row every addMember,
\* updateMembershipRole and removeMember of a non-admin user is answered 403.
C29_OrphanAlwaysForbidden ==
  \A c \in OrphanCohortIds, u \in NonAdmins :
    /\ \A t \in UserIdInputs, role \in RoleInputs :
         addMemberRoute(cohorts, memberships, nextMembershipId, u,
                        [cohortId |-> c, userId |-> t, role |-> role]).status = 403
    /\ \A m \in RowsOf(memberships, c) :
         /\ \A role \in RoleInputs :
              updateMembershipRoleRoute(memberships, u, m.id, role).status = 403
         /\ removeMemberRoute(memberships, u, m.id).status = 403

\* ---------------------------------------------------- claims on blank content
BlankContents == { c \in Contents : isBlank(c) }

\* C24: createPost with empty or whitespace-only content is answered 400 and
\* adds no post row, and no stored post has blank content.
C24_NoBlankPost ==
  /\ \A p \in posts : ~isBlank(p.content)
  /\ \A u \in Authors, c \in {1, 2}, content \in BlankContents :
       LET out == createPostRoute(cohorts, posts, nextPostId, u,
                                  [cohortId |-> c, content |-> content])
       IN out.status = 400 /\ out.posts = posts

\* ------------------------------------------------ claims on caught exceptions
TaxonomyStatuses == {400, 401, 403, 404, 409}
SuccessStatuses == {200, 201}

\* C25: an exception raised by a storage call is answered by its handler with
\* a status of the taxonomy: a register whose insert throws (unique
\* constraint) and a deletePost whose delete throws (foreign key) are never
\* answered outside 400/401/403/404/409.
C25_StorageErrorsInTaxonomy ==
  /\ \A r \in RegisterReqs :
       rreq[r].pc = "done" => rreq[r].status \in TaxonomyStatuses \cup SuccessStatuses
  /\ \A u \in UserIds, id \in PostIdInputs :
       deletePostRoute(posts, comments, upvotes, u, id).status
         \in TaxonomyStatuses \cup SuccessStatuses

\* ------------------------------------------------ claims on embedded user rows
PublicUserFields == {"id", "email", "role", "membershipId", "membershipRole"}

\* C26: the user record joined to each post of GET /api/cohorts/:id/posts and
\* each row of GET /api/cohorts/:id/members carries public profile fields
\* only: no password field.
C26_NoPasswordInResponses ==
  \A u \in UserIds, c \in CohortIdInputs :
    /\ \A row \in getCohortPostsRoute(posts, password, u, c).rows :
         \A author \in row.user : DOMAIN author \subseteq PublicUserFields
    /\ \A row \in getCohortMembersRoute(memberships, password, u, c).rows :
         DOMAIN row \subseteq PublicUserFields

\* -------------------------------------------------------- claims on the client
ClientMembershipRequests ==
  {AddMemberRequest}
    \cup { UpdateRoleRequest(id) : id \in MembershipIdInputs }
    \cup { RemoveMemberRequest(id) : id \in MembershipIdInputs }

\* C27: every membership request of CohortManagement has a registered method
\* and path, and an add-member action of a moderator of the cohort for the
\* email of an existing user ends with a membership row of that user in the
\* cohort.
C27_ClientRequestsAreRouted ==
  /\ [](\A request \in ClientMembershipRequests :
          dispatch(request.method, request.path) # {})
  /\ [][\A caller \in NonAdmins, c \in CohortIdInputs, t \in UserIds,
          status \in NoRouteStatuses :
          ( /\ ModeratorRow(memberships, caller, c)
            /\ nextMembershipId <= MaxMembershipId
            /\ ClientAddMember(caller, c, EmailOf[t], status) ) =>
              \E m \in memberships' \ memberships :
                m.userId = t /\ m.cohortId = c]_vars

\* ------------------------------------------- claims on references to a post
\* C28: every comment and every upvote references an existing post, and
\* deletePost by the author of a post that still has a comment or an upvote
\* deletes nothing and is answered with a failure, not with {success: true}.
C28_ReferencedPostStays ==
  /\ \A c \in comments : getPost(posts, c.postId) # {}
  /\ \A v \in upvotes : getPost(posts, v.postId) # {}
  /\ \A p \in posts :
       postIsReferenced(comments, upvotes, p.id) =>
         LET out == deletePostRoute(posts, comments, upvotes, p.userId, p.id)
         IN /\ out.posts = posts
            /\ out.status = 500 /\ out.body = DeletePostFailedMsg

\* the author's deletePost of a post that has a comment or an upvote was
\* answered 500 and the post and its references are still there
C28_Witness ==
  /\ last.op = "deletePost" /\ last.status = 500
  /\ \E p \in posts :
       /\ p.userId = last.caller
       /\ postIsReferenced(comments, upvotes, p.id)
       /\ \E v \in upvotes : v.postId = p.id

\* ------------------------------------------------------ claims on updateBaby
BelongsTo(bs, id, userId) == \E b \in bs : b.id = id /\ b.userId = userId
HasField(updateData) ==
  \/ updateData.name # AbsentField
  \/ updateData.birthDate # AbsentDate
  \/ updateData.photoUrl # AbsentField
\* row k is row b with at most name, birthDate, birthWeek and photoUrl changed
SameButEditable(b, k) ==
  k = [b EXCEPT !.name = k.name, !.birthDate = k.birthDate,
                !.birthWeek = k.birthWeek, !.photoUrl = k.photoUrl]

\* C30: updateBaby(id, data, userId) changes a row only when the row has that
\* id and belongs to userId; for a row of another user it returns undefined
\* (the route answers 404) and changes nothing; the row it changes keeps its
\* id, userId and cohortId, whatever the new birthDate, and no other row
\* changes.
C30_UpdateBabyFrame ==
  \A userId \in Parents, id \in 1 .. MaxBabyId, updateData \in UpdateInputs :
   \A first \in FirstBabyChoices(babies, userId) :
    LET updated == updateBaby(babies, id, updateData, first)
        out == updateBabyRoute(babies, userId, id, updateData, first)
    IN /\ ~BelongsTo(babies, id, userId) =>
            /\ updated.result = {} /\ updated.babies = babies
            /\ out.babies = babies
            /\ HasField(updateData) => out.status = 404
       /\ Cardinality(updated.babies) = Cardinality(babies)
       /\ \A b \in babies :
            \E k \in updated.babies :
              /\ k.id = b.id /\ SameButEditable(b, k)
              /\ k # b => (b.id = id /\ b.userId = userId)
       /\ out.babies \in {babies, updated.babies}

\* a parent moved the birth date of a baby to a month outside the range of
\* the baby's cohort, and the baby is still in that cohort
C30_Witness ==
  /\ last.op = "updateBaby" /\ last.status = 200
  /\ \E b \in babies, c \in cohortRanges :
       /\ b.userId = last.caller /\ c.id = b.cohortId
       /\ CohortRange(b.birthWeek) # [start |-> c.startDate, end |-> c.endDate]
       /\ b.name # FirstName

====
